---- MODULE Spec2Model ----
(***************************************************************************)
(* habithing: date keys, schedule rules, streaks (src/lib/dateKey.ts and   *)
(* src/lib/schedule.ts, both in src/unnamed/part_007), the Convex          *)
(* functions of convex/*.ts and the pages that call them.                  *)
(*                                                                         *)
(* A DateKey is a JavaScript string.  It is modelled as the sequence of    *)
(* its UTF-16 code units, so that `<=` on keys is the code-unit-wise       *)
(* comparison JavaScript performs and formatting/parsing are real          *)
(* conversions.  A JavaScript Date is modelled by the number of its local  *)
(* calendar day (days since 1970-01-01, proleptic Gregorian).              *)
(***************************************************************************)
EXTENDS Integers, Sequences, FiniteSets, TLC

VARIABLES
    \* calculateStreak call
    scheduledDates, completedDates, todayDateKey, streak, streakPc,
    \* occursOn / isDueOn call
    schedDateKey, schedRules, schedDue, schedOccurs, schedPc,
    \* dateKeyRange / getScheduledDateKeysInRange call
    rangeStart, rangeEnd, rangeRules, current, result, scheduled, rangePc,
    \* toDateKey call
    nowMs, timeZone, graceMinutes, dateKeyOut, tdkPc,
    \* Convex tables, session, and the pages' memoised date keys
    users, habits, habitCompletions, nextId, lastReturn,
    identity, browserTimeZone, page, pageToday, pageMountedAt,
    \* subtractDays / addDays / daysBetween calls
    calcKey, calcOther, calcDays, calcSub, calcBack, calcBetween,
    \* formatDateKey / parseDateKey calls
    fmtArgs, fmtOut, parseText, parseOut,
    \* formatScheduleRule call
    fmtRule, fmtRuleOut,
    \* record of the calls made so far (not state of the program): the run of
    \* toggleForDate calls on one pair, and the last archive or unarchive call
    \* that succeeded on each habit
    toggleRun, lastArchiveCall,
    \* Heatmap: props and the grid its useMemo builds
    hmToday, hmWeeks, hmGrid,
    \* useStoreUser: Clerk's user, Convex auth, the userId state, the store
    \* calls in flight, and the number of sign-ins so far
    clerkUser, convexAuth, userId, storeCalls, signIns,
    \* HabitForm on the HabitDetail page: the habit being edited, the schedule
    \* controls' state, whether a schedule control was used since the form
    \* opened, and the arguments of the habits.update call a submit made
    formHabit, scheduleType, selectedWeekdays, selectedDaysOfMonth, formTouched,
    updateArgs

streakVars == <<scheduledDates, completedDates, todayDateKey, streak, streakPc>>
schedVars == <<schedDateKey, schedRules, schedDue, schedOccurs, schedPc>>
rangeVars == <<rangeStart, rangeEnd, rangeRules, current, result, scheduled, rangePc>>
tdkVars == <<nowMs, timeZone, graceMinutes, dateKeyOut, tdkPc>>
dbVars == <<users, habits, habitCompletions, nextId, lastReturn>>
pageVars == <<identity, browserTimeZone, page, pageToday, pageMountedAt>>
appVars == <<dbVars, pageVars>>
calcVars == <<calcKey, calcOther, calcDays, calcSub, calcBack, calcBetween>>
parseVars == <<fmtArgs, fmtOut, parseText, parseOut>>
ruleFmtVars == <<fmtRule, fmtRuleOut>>
historyVars == <<toggleRun, lastArchiveCall>>
libVars == <<calcVars, parseVars, ruleFmtVars, historyVars>>
heatVars == <<hmToday, hmWeeks, hmGrid>>
hookVars == <<clerkUser, convexAuth, userId, storeCalls, signIns>>
formVars == <<formHabit, scheduleType, selectedWeekdays, selectedDaysOfMonth, formTouched,
              updateArgs>>
uiVars == <<heatVars, hookVars, formVars>>
vars == <<streakVars, schedVars, rangeVars, tdkVars, appVars, libVars, uiVars>>

-----------------------------------------------------------------------------
(* JavaScript strings and numbers *)

\* UTF-16 code units of the characters the date keys are made of.
ChHyphen == 45
Ch0 == 48
Ch9 == 57
ChN == 78
Cha == 97

\* The value NaN: a reserved number that no calendar computation of the
\* model produces.
NaN == 0 - 1000000000
\* The value undefined of a missing array element.
Undefined == 0 - 1000000001

Min(a, b) == IF a <= b THEN a ELSE b

\* Whether x is an ordinary number.
IsNum(x) == x # NaN /\ x # Undefined

\* a - b and a + b on JavaScript numbers: NaN as soon as an operand is NaN or
\* undefined.
Sub(a, b) == IF IsNum(a) /\ IsNum(b) THEN a - b ELSE NaN
Add(a, b) == IF IsNum(a) /\ IsNum(b) THEN a + b ELSE NaN

\* a < b on strings: the first differing code unit decides; a proper prefix
\* is smaller.
StrLt(a, b) ==
    \E i \in 1..(Min(Len(a), Len(b)) + 1) :
        /\ \A j \in 1..(i - 1) : a[j] = b[j]
        /\ \/ (i > Len(a) /\ i <= Len(b))
           \/ (i <= Len(a) /\ i <= Len(b) /\ a[i] < b[i])

\* a <= b on strings.
StrLeq(a, b) == a = b \/ StrLt(a, b)

RECURSIVE DigitsOf(_)
\* The decimal digits of a natural number, most significant first.
DigitsOf(n) ==
    IF n < 10 THEN <<Ch0 + n>>
    ELSE Append(DigitsOf(n \div 10), Ch0 + (n % 10))

\* String(n) / `${n}` for an integer or NaN.
NumToStr(n) ==
    IF n = NaN THEN <<ChN, Cha, ChN>>
    ELSE IF n < 0 THEN <<ChHyphen>> \o DigitsOf(0 - n)
    ELSE DigitsOf(n)

\* s.padStart(2, '0')
padStart2(s) == IF Len(s) < 2 THEN <<Ch0>> \o s ELSE s

RECURSIVE SplitFrom(_, _, _)
\* s.split('-'), scanning from index i with the segment acc in progress.
SplitFrom(s, i, acc) ==
    IF i > Len(s) THEN <<acc>>
    ELSE IF s[i] = ChHyphen THEN <<acc>> \o SplitFrom(s, i + 1, <<>>)
    ELSE SplitFrom(s, i + 1, Append(acc, s[i]))

split(s) == SplitFrom(s, 1, <<>>)

RECURSIVE DigitsValue(_, _)
DigitsValue(s, acc) ==
    IF s = <<>> THEN acc
    ELSE DigitsValue(Tail(s), acc * 10 + (Head(s) - Ch0))

\* Number(s) for a string of the model's alphabet: the empty string is 0, a
\* string of decimal digits is its value, anything else is NaN.
Number(s) ==
    IF s = <<>> THEN 0
    ELSE IF \A i \in 1..Len(s) : s[i] >= Ch0 /\ s[i] <= Ch9 THEN DigitsValue(s, 0)
    ELSE NaN

-----------------------------------------------------------------------------
(* The JavaScript Date object, in local time *)

\* Day number of the proleptic Gregorian date (y, m, d), m in 1..12, any d.
DaysFromCivil(y, m, d) ==
    LET yy == IF m <= 2 THEN y - 1 ELSE y
        era == yy \div 400
        yoe == yy - era * 400
        mp == IF m > 2 THEN m - 3 ELSE m + 9
        doy == (153 * mp + 2) \div 5 + d - 1
        doe == yoe * 365 + yoe \div 4 - yoe \div 100 + doy
    IN  era * 146097 + doe - 719468

\* The (year, month, day) of a day number.
CivilFromDays(n) ==
    LET z == n + 719468
        era == z \div 146097
        doe == z - era * 146097
        yoe == (doe - doe \div 1460 + doe \div 36524 - doe \div 146096) \div 365
        doy == doe - (365 * yoe + yoe \div 4 - yoe \div 100)
        mp == (5 * doy + 2) \div 153
        d == doy - (153 * mp + 2) \div 5 + 1
        m == IF mp < 10 THEN mp + 3 ELSE mp - 9
    IN  [year |-> yoe + era * 400 + (IF m <= 2 THEN 1 ELSE 0), month |-> m, day |-> d]

\* new Date(year, monthIndex, day): local midnight of the date, after the
\* carries of MakeDay (a month index outside 0..11 moves the year, a day
\* outside the month moves the month); a year in 0..99 means 1900 + year;
\* any NaN argument gives the Invalid Date.
NewDate(year, monthIndex, day) ==
    IF ~IsNum(year) \/ ~IsNum(monthIndex) \/ ~IsNum(day) THEN NaN
    ELSE LET yr == IF year >= 0 /\ year <= 99 THEN 1900 + year ELSE year
             ym == yr + monthIndex \div 12
             mn == monthIndex % 12
         IN  DaysFromCivil(ym, mn + 1, 1) + day - 1

\* date.getFullYear(), date.getMonth(), date.getDate(), date.getDay()
getFullYear(date) == IF date = NaN THEN NaN ELSE CivilFromDays(date).year
getMonth(date) == IF date = NaN THEN NaN ELSE CivilFromDays(date).month - 1
getDate(date) == IF date = NaN THEN NaN ELSE CivilFromDays(date).day
getDay(date) == IF date = NaN THEN NaN ELSE (date + 4) % 7

\* date.setDate(dayOfMonth): the date moved to that day of its month, with
\* carry.
setDate(date, dayOfMonth) ==
    IF ~IsNum(date) \/ ~IsNum(dayOfMonth) THEN NaN
    ELSE LET c == CivilFromDays(date)
         IN  DaysFromCivil(c.year, c.month, 1) + dayOfMonth - 1

\* y-MM-dd of a calendar day.
KeyOfLocalDay(n) ==
    LET c == CivilFromDays(n)
    IN  NumToStr(c.year) \o <<ChHyphen>> \o padStart2(NumToStr(c.month))
            \o <<ChHyphen>> \o padStart2(NumToStr(c.day))

-----------------------------------------------------------------------------
(* src/lib/dateKey.ts *)

\* Instants are milliseconds counted from 2024-02-29T00:00:00Z (the count
\* from 1970 does not fit the model's integers).
BaseDay == DaysFromCivil(2024, 2, 29)
MsPerMinute == 60 * 1000
MsPerDay == 24 * 60 * MsPerMinute

\* The IANA zones of the model; any other name is rejected by Intl.
Zones == {"UTC", "America/New_York", "Asia/Kolkata"}

\* The instant daylight saving time starts in America/New_York in 2024:
\* 2024-03-10T07:00:00Z.
NewYorkDstStartMs == (DaysFromCivil(2024, 3, 10) - BaseDay) * MsPerDay + 7 * 60 * MsPerMinute

\* Minutes east of UTC of a zone at an instant.
ZoneOffsetMin(zone, ms) ==
    CASE zone = "UTC" -> 0
      [] zone = "Asia/Kolkata" -> 330
      [] zone = "America/New_York" -> IF ms >= NewYorkDstStartMs THEN 0 - 240 ELSE 0 - 300

\* The calendar day, in the zone, of an instant.
ZoneDay(zone, ms) == BaseDay + (ms + ZoneOffsetMin(zone, ms) * MsPerMinute) \div MsPerDay

\* new Intl.DateTimeFormat('en-CA', {timeZone, year: 'numeric', month:
\* '2-digit', day: '2-digit'}).format(date): y-MM-dd of the day in the zone.
IntlFormatEnCA(zone, ms) == KeyOfLocalDay(ZoneDay(zone, ms))

\* toDateKey with the grace taken off the wall clock after the projection.
toDateKeyGraceAfterProjection(now, zone, grace) ==
    LET localMs == now + ZoneOffsetMin(zone, now) * MsPerMinute - grace * 60 * 1000
    IN  KeyOfLocalDay(BaseDay + localMs \div MsPerDay)

\* toDateKey: the grace minutes come off the instant, then the instant is
\* formatted in the zone.
toDateKey(now, zone, grace) ==
    LET adjustedMs == now - grace * 60 * 1000
    IN  IntlFormatEnCA(zone, adjustedMs)

\* parseDateKey: split on '-', Number of each part, the first three parts
\* named; a missing part is undefined.
parseDateKey(dateKey) ==
    LET parts == split(dateKey)
        at(i) == IF i <= Len(parts) THEN Number(parts[i]) ELSE Undefined
    IN  [year |-> at(1), month |-> at(2), day |-> at(3)]

\* formatDateKey without the padding of month and day.
formatDateKeyUnpadded(year, month, day) ==
    NumToStr(year) \o <<ChHyphen>> \o NumToStr(month) \o <<ChHyphen>> \o NumToStr(day)

\* formatDateKey: the year as it prints, month and day padded to width 2.
formatDateKey(year, month, day) ==
    NumToStr(year) \o <<ChHyphen>> \o padStart2(NumToStr(month))
        \o <<ChHyphen>> \o padStart2(NumToStr(day))

\* getDayOfWeek: 0 = Sunday.
getDayOfWeek(dateKey) ==
    LET p == parseDateKey(dateKey)
    IN  getDay(NewDate(p.year, Sub(p.month, 1), p.day))

\* subtractDays
subtractDays(dateKey, days) ==
    LET p == parseDateKey(dateKey)
        d0 == NewDate(p.year, Sub(p.month, 1), p.day)
        date == setDate(d0, Sub(getDate(d0), days))
    IN  formatDateKey(getFullYear(date), Add(getMonth(date), 1), getDate(date))

\* addDays
addDays(dateKey, days) == subtractDays(dateKey, 0 - days)

\* Minutes east of UTC of the machine's local time on a calendar day: a zone
\* that is one hour ahead on the days from DstFirstDay up to DstLastDay.
DstFirstDay == DaysFromCivil(2024, 3, 31)
DstLastDay == DaysFromCivil(2024, 10, 26)
LocalOffsetMin(day) == IF day >= DstFirstDay /\ day <= DstLastDay THEN 120 ELSE 60

\* daysBetween: the two local midnights' getTime() difference divided by one
\* day and rounded as Math.round rounds (halves up).  The difference is a
\* whole number of days less the change of the zone offset, here in minutes;
\* the whole days pass through the rounding unchanged.
daysBetween(startDateKey, endDateKey) ==
    LET start == parseDateKey(startDateKey)
        end == parseDateKey(endDateKey)
        startDate == NewDate(start.year, Sub(start.month, 1), start.day)
        endDate == NewDate(end.year, Sub(end.month, 1), end.day)
        restMin == 0 - (LocalOffsetMin(endDate) - LocalOffsetMin(startDate))
    IN  IF IsNum(startDate) /\ IsNum(endDate)
        THEN (endDate - startDate) + (2 * restMin + 1440) \div 2880
        ELSE NaN

\* isPastOrToday
isPastOrToday(dateKey, today) == StrLeq(dateKey, today)

-----------------------------------------------------------------------------
(* src/lib/schedule.ts *)

\* array.includes(x)
Includes(array, x) == \E i \in 1..Len(array) : array[i] = x

\* occursOn with the weekly test made on the day of the month.
occursOnWeeklyByDate(dateKey, rule) ==
    LET p == parseDateKey(dateKey)
    IN  CASE rule.kind = "daily" -> TRUE
          [] rule.kind = "weekly" -> Includes(rule.weekdays, p.day)
          [] rule.kind = "monthly" -> Includes(rule.daysOfMonth, p.day)
          [] rule.kind = "yearly" -> rule.month = p.month /\ rule.day = p.day
          [] OTHER -> FALSE

\* occursOn as the switch computes it from the parsed month and day and the
\* day of the week.
occursOn(dateKey, rule) ==
    LET p == parseDateKey(dateKey)
        dayOfWeek == getDayOfWeek(dateKey)
    IN  CASE rule.kind = "daily" -> TRUE
          [] rule.kind = "weekly" -> Includes(rule.weekdays, dayOfWeek)
          [] rule.kind = "monthly" -> Includes(rule.daysOfMonth, p.day)
          [] rule.kind = "yearly" ->
                 /\ IsNum(p.month) /\ IsNum(p.day)
                 /\ rule.month = p.month /\ rule.day = p.day
          [] OTHER -> FALSE

\* scheduleRules.every(...) where the code has some(...).
isDueOnEvery(dateKey, scheduleRules) ==
    \A i \in 1..Len(scheduleRules) : occursOn(dateKey, scheduleRules[i])

\* isDueOn: scheduleRules.some(...)
isDueOn(dateKey, scheduleRules) ==
    \E i \in 1..Len(scheduleRules) : occursOn(dateKey, scheduleRules[i])

\* array.filter(...) with isDueOn
FilterDue(allDates, scheduleRules) ==
    LET Keep(dateKey) == isDueOn(dateKey, scheduleRules)
    IN  SelectSeq(allDates, Keep)

\* A filter that drops today itself: d < today.
PastScheduledStrict(dates, today) ==
    LET Keep(d) == StrLt(d, today)
    IN  SelectSeq(dates, Keep)

\* The filter of calculateStreak: scheduledDates.filter((d) => d <= today)
PastScheduled(dates, today) ==
    LET Keep(d) == StrLeq(d, today)
    IN  SelectSeq(dates, Keep)

RECURSIVE StreakLoop(_, _, _, _, _)
\* The loop of calculateStreak at index i (1-based) with the streak so far.
StreakLoop(pastScheduled, completed, today, i, n) ==
    IF i < 1 THEN n
    ELSE LET dateKey == pastScheduled[i]
         IN  IF dateKey = today /\ dateKey \notin completed
             THEN StreakLoop(pastScheduled, completed, today, i - 1, n)
             ELSE IF dateKey \in completed
                  THEN StreakLoop(pastScheduled, completed, today, i - 1, n + 1)
                  ELSE n

RECURSIVE StreakLoopNoSkip(_, _, _, _)
\* The loop without the branch that skips an unfinished today.
StreakLoopNoSkip(pastScheduled, completed, i, n) ==
    IF i < 1 THEN n
    ELSE IF pastScheduled[i] \in completed
         THEN StreakLoopNoSkip(pastScheduled, completed, i - 1, n + 1)
         ELSE n

calculateStreakNoSkip(dates, completed, today) ==
    LET pastScheduled == PastScheduled(dates, today)
    IN  StreakLoopNoSkip(pastScheduled, completed, Len(pastScheduled), 0)

RECURSIVE StreakLoopCountsToday(_, _, _, _, _)
\* The loop that counts an unfinished today instead of skipping it.
StreakLoopCountsToday(pastScheduled, completed, today, i, n) ==
    IF i < 1 THEN n
    ELSE LET dateKey == pastScheduled[i]
         IN  IF dateKey = today /\ dateKey \notin completed
             THEN StreakLoopCountsToday(pastScheduled, completed, today, i - 1, n + 1)
             ELSE IF dateKey \in completed
                  THEN StreakLoopCountsToday(pastScheduled, completed, today, i - 1, n + 1)
                  ELSE n

calculateStreakCountsToday(dates, completed, today) ==
    LET pastScheduled == PastScheduled(dates, today)
    IN  IF Len(pastScheduled) = 0 THEN 0
        ELSE StreakLoopCountsToday(pastScheduled, completed, today, Len(pastScheduled), 0)

RECURSIVE StreakLoopPastMisses(_, _, _, _, _)
\* The loop with `continue` where the source has `break`: a missed day is
\* passed over.
StreakLoopPastMisses(pastScheduled, completed, today, i, n) ==
    IF i < 1 THEN n
    ELSE LET dateKey == pastScheduled[i]
         IN  IF dateKey = today /\ dateKey \notin completed
             THEN StreakLoopPastMisses(pastScheduled, completed, today, i - 1, n)
             ELSE IF dateKey \in completed
                  THEN StreakLoopPastMisses(pastScheduled, completed, today, i - 1, n + 1)
                  ELSE StreakLoopPastMisses(pastScheduled, completed, today, i - 1, n)

calculateStreakPastMisses(dates, completed, today) ==
    LET pastScheduled == PastScheduled(dates, today)
    IN  IF Len(pastScheduled) = 0 THEN 0
        ELSE StreakLoopPastMisses(pastScheduled, completed, today, Len(pastScheduled), 0)

calculateStreak(dates, completed, today) ==
    LET pastScheduled == PastScheduled(dates, today)
    IN  IF Len(pastScheduled) = 0 THEN 0
        ELSE StreakLoop(pastScheduled, completed, today, Len(pastScheduled), 0)

\* a % b of JavaScript: the remainder has the sign of a.
JsRem(a, b) == IF a >= 0 THEN a % b ELSE 0 - ((0 - a) % b)

RECURSIVE Join(_, _)
\* array.join(separator) on an array of strings.
Join(array, separator) ==
    IF Len(array) = 0 THEN ""
    ELSE IF Len(array) = 1 THEN array[1]
    ELSE array[1] \o separator \o Join(Tail(array), separator)

\* array[index] with a 0-based index, or <<>> (undefined) outside the array.
ElementAt(array, index) ==
    IF index >= 0 /\ index < Len(array) THEN <<array[index + 1]>> ELSE <<>>

dayNames == <<"Sun", "Mon", "Tue", "Wed", "Thu", "Fri", "Sat">>
monthNames == <<"Jan", "Feb", "Mar", "Apr", "May", "Jun",
                "Jul", "Aug", "Sep", "Oct", "Nov", "Dec">>

\* ordinal: n + (s[(v - 20) % 10] || s[v] || s[0])
ordinal(n) ==
    LET sfx == <<"th", "st", "nd", "rd">>
        v == JsRem(n, 100)
        first == ElementAt(sfx, JsRem(v - 20, 10))
        second == ElementAt(sfx, v)
    IN  ToString(n) \o (IF first # <<>> THEN first[1]
                        ELSE IF second # <<>> THEN second[1]
                        ELSE sfx[1])

\* formatScheduleRule with the named sets recognised in ascending order
\* only.
formatScheduleRuleInOrder(rule) ==
    CASE rule.kind = "daily" -> "Every day"
      [] rule.kind = "weekly" ->
            IF rule.weekdays = <<0, 1, 2, 3, 4, 5, 6>> THEN "Every day"
            ELSE IF rule.weekdays = <<1, 2, 3, 4, 5>> THEN "Weekdays"
            ELSE IF rule.weekdays = <<0, 6>> THEN "Weekends"
            ELSE Join([i \in 1..Len(rule.weekdays) |-> dayNames[rule.weekdays[i] + 1]], ", ")
      [] rule.kind = "monthly" ->
            "Monthly on " \o
                Join([i \in 1..Len(rule.daysOfMonth) |-> ordinal(rule.daysOfMonth[i])], ", ")
      [] rule.kind = "yearly" ->
            "Yearly on " \o monthNames[rule.month] \o " " \o ToString(rule.day)
      [] OTHER -> "Unknown schedule"

\* formatScheduleRule
formatScheduleRule(rule) ==
    CASE rule.kind = "daily" -> "Every day"
      [] rule.kind = "weekly" ->
            IF Len(rule.weekdays) = 7 THEN "Every day"
            ELSE IF /\ Len(rule.weekdays) = 5
                    /\ ~Includes(rule.weekdays, 0)
                    /\ ~Includes(rule.weekdays, 6)
                 THEN "Weekdays"
            ELSE IF /\ Len(rule.weekdays) = 2
                    /\ Includes(rule.weekdays, 0)
                    /\ Includes(rule.weekdays, 6)
                 THEN "Weekends"
            ELSE Join([i \in 1..Len(rule.weekdays) |-> dayNames[rule.weekdays[i] + 1]], ", ")
      [] rule.kind = "monthly" ->
            "Monthly on " \o
                Join([i \in 1..Len(rule.daysOfMonth) |-> ordinal(rule.daysOfMonth[i])], ", ")
      [] rule.kind = "yearly" ->
            "Yearly on " \o monthNames[rule.month] \o " " \o ToString(rule.day)
      [] OTHER -> "Unknown schedule"

-----------------------------------------------------------------------------
(* Date keys of the model *)

\* The key the program produces for a calendar day (toDateKey, addDays).
KeyOfDay(n) ==
    LET c == CivilFromDays(n)
    IN  formatDateKey(c.year, c.month, c.day)

\* The keys of the days first .. first + count - 1, ascending.
KeysFrom(first, count) == [i \in 1..count |-> KeyOfDay(first + i - 1)]

\* The set of elements of a sequence.
Range(seq) == {seq[i] : i \in 1..Len(seq)}

\* The subsequence of seq at the indices in idx, in order.
RECURSIVE SubSeqAt(_, _, _)
SubSeqAt(seq, idx, i) ==
    IF i > Len(seq) THEN <<>>
    ELSE IF i \in idx THEN <<seq[i]>> \o SubSeqAt(seq, idx, i + 1)
    ELSE SubSeqAt(seq, idx, i + 1)

\* "No value": the name of no user, zone or key.  A result not computed yet
\* is the empty sequence, and a computed result v is <<v>>.
None == "none"

StreakIdle ==
    /\ scheduledDates = <<>> /\ completedDates = {} /\ todayDateKey = <<>>
    /\ streak = None /\ streakPc = "idle"
SchedIdle ==
    /\ schedDateKey = <<>> /\ schedRules = <<>> /\ schedDue = <<>>
    /\ schedOccurs = <<>> /\ schedPc = "idle"
RangeIdle ==
    /\ rangeStart = <<>> /\ rangeEnd = <<>> /\ rangeRules = <<>> /\ current = <<>>
    /\ result = <<>> /\ scheduled = None /\ rangePc = "idle"
TdkIdle ==
    /\ nowMs = 0 /\ timeZone = None /\ graceMinutes = 0 /\ dateKeyOut = None
    /\ tdkPc = "idle"
\* The deployment before any call: empty tables.
DbInit ==
    /\ users = {} /\ habits = {} /\ habitCompletions = {} /\ nextId = 1
    /\ lastReturn = [call |-> None]
PageIdle ==
    /\ identity = None /\ browserTimeZone = None /\ page = None
    /\ pageToday = <<>> /\ pageMountedAt = 0
AppIdle == DbInit /\ PageIdle
CalcIdle ==
    /\ calcKey = <<>> /\ calcOther = <<>> /\ calcDays = 0 /\ calcSub = <<>>
    /\ calcBack = <<>> /\ calcBetween = <<>>
ParseIdle == fmtArgs = <<>> /\ fmtOut = <<>> /\ parseText = <<>> /\ parseOut = <<>>
RuleFmtIdle == fmtRule = <<>> /\ fmtRuleOut = <<>>
HistoryIdle == toggleRun = <<>> /\ lastArchiveCall = <<>>
LibIdle == CalcIdle /\ ParseIdle /\ RuleFmtIdle /\ HistoryIdle
HeatIdle == hmToday = <<>> /\ hmWeeks = 0 /\ hmGrid = <<>>
HookIdle ==
    /\ clerkUser = None /\ convexAuth = None /\ userId = <<>> /\ storeCalls = {}
    /\ signIns = 0
FormIdle ==
    /\ formHabit = <<>> /\ scheduleType = None /\ selectedWeekdays = <<>>
    /\ selectedDaysOfMonth = <<>> /\ formTouched = FALSE /\ updateArgs = <<>>
UiIdle == HeatIdle /\ HookIdle /\ FormIdle

-----------------------------------------------------------------------------
(* calculateStreak, called on every ascending list of scheduled days, every *)
(* set of completed days and every today of a window of days that crosses   *)
(* a year boundary                                                          *)

MaxStreakDays == 5
StreakFirstDay == DaysFromCivil(2023, 12, 30)
StreakKeys == KeysFrom(StreakFirstDay, MaxStreakDays)

StreakInit ==
    /\ \E idx \in SUBSET (1..MaxStreakDays) : scheduledDates = SubSeqAt(StreakKeys, idx, 1)
    /\ completedDates \in SUBSET Range(StreakKeys)
    /\ todayDateKey \in Range(StreakKeys)
    /\ streak = None
    /\ streakPc = "call"
    /\ UiIdle /\ SchedIdle /\ RangeIdle /\ TdkIdle /\ AppIdle /\ LibIdle

CalculateStreak ==
    /\ streakPc = "call"
    /\ streak' = calculateStreak(scheduledDates, completedDates, todayDateKey)
    /\ streakPc' = "done"
    /\ UNCHANGED <<scheduledDates, completedDates, todayDateKey>>
    /\ UNCHANGED <<schedVars, rangeVars, tdkVars, appVars, libVars, uiVars>>

StreakNext == CalculateStreak

StreakSpec == StreakInit /\ [][StreakNext]_vars

\* The calendar day a key of the streak window names.
StreakDayOf(key) == CHOOSE n \in StreakFirstDay..(StreakFirstDay + MaxStreakDays - 1) :
                        KeyOfDay(n) = key

\* The reference scan: among the scheduled days up to today, leaving out an
\* uncompleted today, the completed days that have no uncompleted day after
\* them.
RefStreak(dates, completed, today) ==
    LET P == {i \in 1..Len(dates) :
                 /\ StreakDayOf(dates[i]) <= StreakDayOf(today)
                 /\ ~(dates[i] = today /\ today \notin completed)}
    IN  Cardinality({i \in P : \A j \in P : j >= i => dates[j] \in completed})

\* C1: calculateStreak returns the count of the reference scan: scheduled
\* days up to today, latest first, an uncompleted today skipped, one per
\* completed day, stopping at the first uncompleted day before today.
C1_StreakIsReferenceScan ==
    streakPc = "done" => streak = RefStreak(scheduledDates, completedDates, todayDateKey)

\* C1 witness: the spec's example shape - today completed, the scheduled day
\* before it missed, earlier days completed, hence a streak of 1.
C1_Witness ==
    /\ streakPc = "done"
    /\ Len(scheduledDates) = MaxStreakDays
    /\ todayDateKey = StreakKeys[MaxStreakDays]
    /\ completedDates = Range(StreakKeys) \ {StreakKeys[MaxStreakDays - 1]}
    /\ streak = 1

\* C2: an unfinished due-today occurrence does not change the streak: with
\* today scheduled and not completed, the result equals the result on the
\* schedule without today.
C2_UnfinishedTodayIsNeutral ==
    (/\ streakPc = "done"
     /\ todayDateKey \in Range(scheduledDates)
     /\ todayDateKey \notin completedDates)
    => LET keep(d) == d # todayDateKey
       IN  streak = calculateStreak(SelectSeq(scheduledDates, keep), completedDates,
                                    todayDateKey)

\* C2 witness: today due and unfinished, the three scheduled days before it
\* completed, streak 3.
C2_Witness ==
    /\ streakPc = "done"
    /\ todayDateKey \in Range(scheduledDates)
    /\ todayDateKey \notin completedDates
    /\ streak = 3

\* The scheduled dates strictly before today, in the order of the list.
BeforeToday(dates, today) ==
    LET Before(d) == StrLt(d, today)
    IN  SelectSeq(dates, Before)

\* Whether the most recent scheduled date strictly before today was missed.
LastBeforeTodayMissed ==
    LET before == BeforeToday(scheduledDates, todayDateKey)
    IN  Len(before) > 0 /\ before[Len(before)] \notin completedDates

\* C24 as stated: when the most recent scheduled date strictly before today
\* is not completed, calculateStreak returns 0.
C24_MissedBeforeTodayGivesZero ==
    (streakPc = "done" /\ LastBeforeTodayMissed) => streak = 0

\* C24 as amended: when the most recent scheduled date strictly before today
\* is not completed, calculateStreak returns 1 if today is a scheduled date
\* that is completed, and 0 otherwise.
C24_MissedBeforeTodayGivesZeroOrToday ==
    (streakPc = "done" /\ LastBeforeTodayMissed)
    => streak = IF /\ todayDateKey \in Range(scheduledDates)
                   /\ todayDateKey \in completedDates
                THEN 1 ELSE 0

\* C24 witness: today scheduled and completed, the scheduled date before it
\* missed, and two scheduled dates before that completed.
C24_Witness ==
    /\ streakPc = "done"
    /\ LastBeforeTodayMissed
    /\ todayDateKey \in Range(scheduledDates) \cap completedDates
    /\ Cardinality(Range(BeforeToday(scheduledDates, todayDateKey)) \cap completedDates) = 2
    /\ streak = 1

\* The number of scheduled dates up to today that are completed.
CompletedUpToToday ==
    Cardinality({i \in 1..Len(scheduledDates) :
                    /\ StrLeq(scheduledDates[i], todayDateKey)
                    /\ scheduledDates[i] \in completedDates})

\* C29: with one more date key in completedDates, whichever it is,
\* calculateStreak on the same scheduledDates and today returns no less; and
\* the result is at most the number of scheduled dates up to today that are
\* completed.
C29_StreakMonotoneAndBounded ==
    streakPc = "done" =>
        /\ \A k \in Range(StreakKeys) :
              calculateStreak(scheduledDates, completedDates \cup {k}, todayDateKey)
                  >= streak
        /\ streak <= CompletedUpToToday

\* C29 witness: a streak of 1 that completing the missed date before it
\* raises to 3, while completing another date leaves it at 1, with a
\* completed date kept out of the count by the miss.
C29_Witness ==
    /\ streakPc = "done"
    /\ streak = 1
    /\ CompletedUpToToday = 2
    /\ \E k \in Range(StreakKeys) \ completedDates :
          calculateStreak(scheduledDates, completedDates \cup {k}, todayDateKey) = 3
    /\ \E k \in Range(StreakKeys) \ completedDates :
          calculateStreak(scheduledDates, completedDates \cup {k}, todayDateKey) = 1

-----------------------------------------------------------------------------
(* occursOn and isDueOn, called on the days around a year end, a leap day,  *)
(* a daylight-saving change and the end of a 30-day month, on keys that     *)
(* name a 31st that does not exist, and on every list of up to MaxRules     *)
(* rules                                                                    *)

MaxRules == 2

\* The calendar days the model draws keys from: (first day, number of days).
DayWindows ==
    { <<DaysFromCivil(2023, 12, 30), 4>>,
      <<DaysFromCivil(2024, 2, 28), 3>>,
      <<DaysFromCivil(2024, 3, 30), 3>>,
      <<DaysFromCivil(2024, 4, 29), 3>>,
      <<DaysFromCivil(9999, 12, 30), 2>> }
ModelDays == UNION { w[1]..(w[1] + w[2] - 1) : w \in DayWindows }
CalendarKeys == { KeyOfDay(n) : n \in ModelDays }

\* Keys of the YYYY-MM-DD shape that name the 31st of a 30-day month.
NoSuchDayKeys == { formatDateKey(2024, m, 31) : m \in {4, 6, 9, 11} }

SchedKeys == CalendarKeys \cup NoSuchDayKeys

\* The rules of the model, one or more of each kind of the schema.
ModelRules ==
    { [kind |-> "daily"],
      [kind |-> "weekly", weekdays |-> <<1, 2, 3, 4, 5>>],
      [kind |-> "weekly", weekdays |-> <<6, 0>>],
      [kind |-> "weekly", weekdays |-> <<>>],
      [kind |-> "monthly", daysOfMonth |-> <<31>>],
      [kind |-> "monthly", daysOfMonth |-> <<1, 30>>],
      [kind |-> "yearly", month |-> 2, day |-> 29],
      [kind |-> "yearly", month |-> 4, day |-> 30] }

RuleLists == UNION { [1..n -> ModelRules] : n \in 0..MaxRules }

SchedInit ==
    /\ schedDateKey \in SchedKeys
    /\ schedRules \in RuleLists
    /\ schedDue = <<>>
    /\ schedOccurs = [i \in 1..Len(schedRules) |-> <<>>]
    /\ schedPc = "call"
    /\ UiIdle /\ StreakIdle /\ RangeIdle /\ TdkIdle /\ AppIdle /\ LibIdle

\* occursOn(schedDateKey, schedRules[i])
OccursOn(i) ==
    /\ schedPc = "call"
    /\ schedOccurs[i] = <<>>
    /\ schedOccurs' = [schedOccurs EXCEPT ![i] = <<occursOn(schedDateKey, schedRules[i])>>]
    /\ UNCHANGED <<schedDateKey, schedRules, schedDue, schedPc>>
    /\ UNCHANGED <<streakVars, uiVars, rangeVars, tdkVars, appVars, libVars>>

\* isDueOn(schedDateKey, schedRules)
IsDueOn ==
    /\ schedPc = "call"
    /\ schedDue = <<>>
    /\ schedDue' = <<isDueOn(schedDateKey, schedRules)>>
    /\ UNCHANGED <<schedDateKey, schedRules, schedOccurs, schedPc>>
    /\ UNCHANGED <<streakVars, uiVars, rangeVars, tdkVars, appVars, libVars>>

SchedNext ==
    \/ \E i \in 1..Len(schedRules) : OccursOn(i)
    \/ IsDueOn

SchedSpec == SchedInit /\ [][SchedNext]_vars

\* The calendar day a calendar key names.
DayOfKey(key) == CHOOSE n \in ModelDays : KeyOfDay(n) = key

\* Day of the week of a calendar day, 0 = Sunday, counted from Monday
\* 2024-01-01.
RefWeekday(n) == (n - DaysFromCivil(2024, 1, 1) + 1) % 7

\* What the rule kinds mean on a calendar day.
RefOccurs(n, rule) ==
    LET c == CivilFromDays(n)
    IN  CASE rule.kind = "daily" -> TRUE
          [] rule.kind = "weekly" -> RefWeekday(n) \in Range(rule.weekdays)
          [] rule.kind = "monthly" -> c.day \in Range(rule.daysOfMonth)
          [] rule.kind = "yearly" -> rule.month = c.month /\ rule.day = c.day

C5_IsDueOnIsAnyRule ==
    (schedDue # <<>> /\ \A i \in 1..Len(schedRules) : schedOccurs[i] # <<>>)
    => /\ schedDue = <<\E i \in 1..Len(schedRules) : schedOccurs[i] = <<TRUE>> >>
       /\ (schedRules = <<>> => schedDue = <<FALSE>>)

\* C5 witness: a list whose first rule does not fire and whose second does.
C5_Witness ==
    /\ Len(schedRules) = 2
    /\ schedOccurs = <<<<FALSE>>, <<TRUE>>>>
    /\ schedDue = <<TRUE>>

\* C7: the rule monthly [31] fires neither on 2024-04-30 nor on a key that
\* names the 31st of April, June, September or November.
C7_Monthly31NeverInShortMonth ==
    \A i \in 1..Len(schedRules) :
        (/\ schedRules[i] = [kind |-> "monthly", daysOfMonth |-> <<31>>]
         /\ schedOccurs[i] # <<>>
         /\ schedDateKey \in {formatDateKey(2024, 4, 30)} \cup NoSuchDayKeys)
        => schedOccurs[i] = <<FALSE>>

-----------------------------------------------------------------------------
(* dateKeyRange and getScheduledDateKeysInRange, one loop iteration per     *)
(* step, from every calendar key of the model to every end from MaxBack     *)
(* days before it to MaxSpan days after it                                  *)

MaxBack == 2
MaxSpan == 4

\* The model follows a loop for at most RangeCap iterations.
RangeCap == MaxSpan + 3

\* The last calendar day whose year has four digits.
LastDay == DaysFromCivil(9999, 12, 31)

RangeInit ==
    /\ \E n \in ModelDays :
         /\ rangeStart = KeyOfDay(n)
         /\ \E k \in (0 - MaxBack)..MaxSpan :
              /\ n + k <= LastDay
              /\ rangeEnd = KeyOfDay(n + k)
    /\ rangeRules \in RuleLists
    /\ current = <<>>
    /\ result = <<>>
    /\ scheduled = <<>>
    /\ rangePc = "call"
    /\ UiIdle /\ StreakIdle /\ SchedIdle /\ TdkIdle /\ AppIdle /\ LibIdle

\* dateKeyRange: result = [], current = startDateKey
DateKeyRangeEnter ==
    /\ rangePc = "call"
    /\ current' = rangeStart
    /\ result' = <<>>
    /\ rangePc' = "loop"
    /\ UNCHANGED <<rangeStart, rangeEnd, rangeRules, scheduled>>
    /\ UNCHANGED <<streakVars, uiVars, schedVars, tdkVars, appVars, libVars>>

\* One iteration of while (current <= endDateKey).
DateKeyRangeStep ==
    /\ rangePc = "loop"
    /\ StrLeq(current, rangeEnd)
    /\ Len(result) < RangeCap
    /\ result' = Append(result, current)
    /\ current' = addDays(current, 1)
    /\ UNCHANGED <<rangeStart, rangeEnd, rangeRules, scheduled, rangePc>>
    /\ UNCHANGED <<streakVars, uiVars, schedVars, tdkVars, appVars, libVars>>

\* The loop condition fails: dateKeyRange returns result.
DateKeyRangeReturn ==
    /\ rangePc = "loop"
    /\ ~StrLeq(current, rangeEnd)
    /\ rangePc' = "returned"
    /\ UNCHANGED <<rangeStart, rangeEnd, rangeRules, current, result, scheduled>>
    /\ UNCHANGED <<streakVars, uiVars, schedVars, tdkVars, appVars, libVars>>

\* getScheduledDateKeysInRange: allDates.filter(isDueOn)
FilterScheduled ==
    /\ rangePc = "returned"
    /\ scheduled' = <<FilterDue(result, rangeRules)>>
    /\ rangePc' = "done"
    /\ UNCHANGED <<rangeStart, rangeEnd, rangeRules, current, result>>
    /\ UNCHANGED <<streakVars, uiVars, schedVars, tdkVars, appVars, libVars>>

RangeNext ==
    \/ DateKeyRangeEnter
    \/ DateKeyRangeStep
    \/ DateKeyRangeReturn
    \/ FilterScheduled

RangeSpec == RangeInit /\ [][RangeNext]_vars

\* The calendar days the range calls can name or reach.
RangeDays == UNION { (n - MaxBack)..(n + RangeCap) : n \in ModelDays }

\* The calendar day a key of a range call names.
RangeDayOf(key) == CHOOSE n \in RangeDays : KeyOfDay(n) = key

\* The consecutive calendar days from a to b as keys; empty when a > b.
RefRange(a, b) == [i \in 1..(b - a + 1) |-> KeyOfDay(a + i - 1)]

\* Whether p is an initial part of s.
IsPrefix(p, s) == Len(p) <= Len(s) /\ \A i \in 1..Len(p) : p[i] = s[i]

\* C10: dateKeyRange(s, e) is the ascending sequence of the consecutive
\* calendar days from s to e inclusive, of length daysBetween(s, e) + 1,
\* when s <= e, and empty when s > e.  While the loop runs, what it has
\* collected is an initial part of that sequence.
C10_DateKeyRangeIsDayRange ==
    LET a == RangeDayOf(rangeStart)
        b == RangeDayOf(rangeEnd)
    IN  /\ rangePc = "loop" => IsPrefix(result, RefRange(a, b))
        /\ rangePc \in {"returned", "done"} =>
              /\ result = RefRange(a, b)
              /\ Len(result) = IF a <= b THEN daysBetween(rangeStart, rangeEnd) + 1 ELSE 0

\* The statement of C10 for every end before the last day of year 9999.
DateKeyRangeIsDayRangeBeforeLastDay ==
    RangeDayOf(rangeEnd) < LastDay => C10_DateKeyRangeIsDayRange

\* C6: getScheduledDateKeysInRange(rules, start, end) is the strictly
\* ascending sequence of exactly the calendar days d, start <= d <= end, with
\* isDueOn(d, rules), and empty when start > end.  While the loop runs, the
\* collected days the filter keeps are an initial part of that sequence.
C6_ScheduledIsDueDaysOfRange ==
    LET a == RangeDayOf(rangeStart)
        b == RangeDayOf(rangeEnd)
        due(n) == \E i \in 1..Len(rangeRules) : RefOccurs(n, rangeRules[i])
        RECURSIVE DueFrom(_)
        DueFrom(n) == IF n > b THEN <<>>
                      ELSE (IF due(n) THEN <<KeyOfDay(n)>> ELSE <<>>) \o DueFrom(n + 1)
    IN  /\ rangePc = "loop" => IsPrefix(FilterDue(result, rangeRules), DueFrom(a))
        /\ rangePc = "done" => scheduled = <<DueFrom(a)>>

\* The statement of C6 for every end before the last day of year 9999.
ScheduledIsDueDaysBeforeLastDay ==
    RangeDayOf(rangeEnd) < LastDay => C6_ScheduledIsDueDaysOfRange

\* C11: the loop of dateKeyRange stops as soon as the current day is
\* chronologically after the end: whenever control is at the loop test with
\* current naming a later calendar day than endDateKey, the test fails.
C11_RangeLoopStopsAfterEnd ==
    (rangePc = "loop" /\ RangeDayOf(current) > RangeDayOf(rangeEnd))
    => ~StrLeq(current, rangeEnd)

\* The statement of C11 for every end before the last day of year 9999.
RangeLoopStopsAfterEndBeforeLastDay ==
    RangeDayOf(rangeEnd) < LastDay => C11_RangeLoopStopsAfterEnd

-----------------------------------------------------------------------------
(* toDateKey, called at instants half an hour apart (and one millisecond    *)
(* before each) over MaxTdkDays days from 2024-02-29, a span that holds the *)
(* start of daylight saving time in New York                                *)

MaxTdkDays == 11
HalfHourMs == 30 * MsPerMinute

TdkInstants ==
    { k * HalfHourMs - j : k \in 1..(MaxTdkDays * 48), j \in {0, 1} }

TdkGraces == {0, 90, 180}

TdkInit ==
    /\ nowMs \in TdkInstants
    /\ timeZone \in Zones \cup {"Mars/Olympus"}
    /\ graceMinutes \in TdkGraces
    /\ dateKeyOut = <<>>
    /\ tdkPc = "call"
    /\ UiIdle /\ StreakIdle /\ SchedIdle /\ RangeIdle /\ AppIdle /\ LibIdle

\* toDateKey({nowMs, timeZone, graceMinutes}) returns.
ToDateKey ==
    /\ tdkPc = "call"
    /\ timeZone \in Zones
    /\ dateKeyOut' = <<toDateKey(nowMs, timeZone, graceMinutes)>>
    /\ tdkPc' = "done"
    /\ UNCHANGED <<nowMs, timeZone, graceMinutes>>
    /\ UNCHANGED <<streakVars, uiVars, schedVars, rangeVars, appVars, libVars>>

\* Intl.DateTimeFormat throws a RangeError for a name that is no zone.
ToDateKeyThrows ==
    /\ tdkPc = "call"
    /\ timeZone \notin Zones
    /\ tdkPc' = "threw"
    /\ UNCHANGED <<nowMs, timeZone, graceMinutes, dateKeyOut>>
    /\ UNCHANGED <<streakVars, uiVars, schedVars, rangeVars, appVars, libVars>>

TdkNext ==
    \/ ToDateKey
    \/ ToDateKeyThrows

TdkSpec == TdkInit /\ [][TdkNext]_vars

\* The wall clock of a zone at an instant: the calendar day and the minute
\* of that day.
WallClock(zone, ms) ==
    LET localMin == (ms + ZoneOffsetMin(zone, ms) * MsPerMinute) \div MsPerMinute
    IN  [day |-> BaseDay + localMin \div 1440, minute |-> localMin % 1440]

\* C8: toDateKey returns the calendar date, in the zone, of the instant
\* graceMinutes * 60000 ms before nowMs; with a grace of 180 minutes, 02:00
\* on 2024-03-01 in the zone gives 2024-02-29 and 04:00 gives 2024-03-01.
C8_ToDateKeyIsZoneDateOfShiftedInstant ==
    tdkPc = "done" =>
        LET shifted == nowMs - graceMinutes * 60000
            wall == WallClock(timeZone, nowMs)
        IN  /\ dateKeyOut = <<KeyOfDay(WallClock(timeZone, shifted).day)>>
            /\ (/\ graceMinutes = 180
                /\ wall.day = DaysFromCivil(2024, 3, 1)
                /\ wall.minute = 2 * 60)
               => dateKeyOut = <<formatDateKey(2024, 2, 29)>>
            /\ (/\ graceMinutes = 180
                /\ wall.day = DaysFromCivil(2024, 3, 1)
                /\ wall.minute = 4 * 60)
               => dateKeyOut = <<formatDateKey(2024, 3, 1)>>

\* C8 witness: 02:00 on 2024-03-01 in New York with a grace of 180 minutes
\* answered with the leap day.
C8_Witness ==
    /\ tdkPc = "done"
    /\ timeZone = "America/New_York"
    /\ graceMinutes = 180
    /\ WallClock(timeZone, nowMs) = [day |-> DaysFromCivil(2024, 3, 1), minute |-> 120]
    /\ dateKeyOut = <<formatDateKey(2024, 2, 29)>>

-----------------------------------------------------------------------------
(* The Convex functions.  A mutation runs as one transaction, so a handler  *)
(* is one step; a handler that throws writes nothing.  The caller's         *)
(* identity, the arguments and Date.now() are inputs of each call.          *)

MaxIds == 6
MaxHabits == 2

\* Token identifiers of the people who can sign in.
Identities == {"clerk|alice", "clerk|bob"}

\* The names an identity provider can report for a person.
NamesOf(who) == IF who = "clerk|alice" THEN {"Alice", "Alice B."} ELSE {"Bob"}

\* The zone of the machine that runs the mutations.
ServerTimeZone == "UTC"

\* Date.now() at a call: 01:00 and 06:00 UTC on 2024-03-01.
AppNows == { MsPerDay + h * 60 * MsPerMinute : h \in {1, 6} }

\* Date keys that clients send.
AppKeys == { formatDateKey(2024, 2, 29), formatDateKey(2024, 3, 1) }

AppSchedules == { <<[kind |-> "weekly", weekdays |-> <<1, 2, 3, 4, 5>>]>> }

\* query(table).withIndex(...).unique(): the one document, none, or an error
\* when several match.
Unique(docs) ==
    IF docs = {} THEN [found |-> FALSE, threw |-> FALSE]
    ELSE IF Cardinality(docs) = 1
         THEN [found |-> TRUE, threw |-> FALSE, doc |-> CHOOSE d \in docs : TRUE]
         ELSE [found |-> FALSE, threw |-> TRUE]

\* users by_token for the caller's identity.
UserByToken(who) == Unique({u \in users : u.tokenIdentifier = who})

\* ctx.db.get(habitId)
GetHabit(habitId) == Unique({h \in habits : h._id = habitId})

\* getCurrentUser: whether it throws for the caller.
GetCurrentUserThrows(who) ==
    \/ who = None
    \/ UserByToken(who).threw
    \/ ~UserByToken(who).found

Threw(name) == [call |-> name, threw |-> TRUE]
Returned(name, v) == [call |-> name, threw |-> FALSE, value |-> v]

\* users.store that writes the default settings again when it finds the row.
StoreRestoresDefaults(who, name) ==
    LET user == UserByToken(who)
    IN  IF who = None \/ user.threw
        THEN /\ lastReturn' = Threw("store")
             /\ UNCHANGED <<users, nextId>>
        ELSE IF user.found
        THEN /\ users' = (users \ {user.doc}) \cup
                    {[user.doc EXCEPT !.name = name, !.timeZone = ServerTimeZone,
                                      !.graceMinutes = 180]}
             /\ lastReturn' = Returned("store", user.doc._id)
             /\ UNCHANGED nextId
        ELSE /\ nextId <= MaxIds
             /\ users' = users \cup {[_id |-> nextId, name |-> name, tokenIdentifier |-> who,
                                      timeZone |-> ServerTimeZone, graceMinutes |-> 180]}
             /\ nextId' = nextId + 1
             /\ lastReturn' = Returned("store", nextId)

\* users.store
Store(who, name) ==
    LET user == UserByToken(who)
    IN  IF who = None \/ user.threw
        THEN /\ lastReturn' = Threw("store")
             /\ UNCHANGED <<users, nextId>>
        ELSE IF user.found
        THEN /\ users' = IF user.doc.name # name
                         THEN (users \ {user.doc}) \cup {[user.doc EXCEPT !.name = name]}
                         ELSE users
             /\ lastReturn' = Returned("store", user.doc._id)
             /\ UNCHANGED nextId
        ELSE /\ nextId <= MaxIds
             /\ users' = users \cup {[_id |-> nextId, name |-> name, tokenIdentifier |-> who,
                                      timeZone |-> ServerTimeZone, graceMinutes |-> 180]}
             /\ nextId' = nextId + 1
             /\ lastReturn' = Returned("store", nextId)

\* users.updateSettings; an argument left out is <<>>.
UpdateSettings(who, tzArg, graceArg) ==
    LET user == UserByToken(who)
    IN  IF who = None \/ user.threw \/ ~user.found
        THEN /\ lastReturn' = Threw("updateSettings")
             /\ UNCHANGED <<users, nextId>>
        ELSE /\ users' = (users \ {user.doc}) \cup
                    {[user.doc EXCEPT
                        !.timeZone = IF tzArg # <<>> THEN tzArg[1] ELSE @,
                        !.graceMinutes = IF graceArg # <<>> THEN graceArg[1] ELSE @]}
             /\ lastReturn' = Returned("updateSettings", user.doc._id)
             /\ UNCHANGED nextId

\* habits.create
CreateHabit(who, title, color, schedule) ==
    IF GetCurrentUserThrows(who)
    THEN /\ lastReturn' = Threw("create")
         /\ UNCHANGED <<habits, nextId>>
    ELSE /\ nextId <= MaxIds
         /\ Cardinality(habits) < MaxHabits
         /\ habits' = habits \cup {[_id |-> nextId, userId |-> UserByToken(who).doc._id,
                                    title |-> title, notes |-> <<>>, color |-> color,
                                    schedule |-> schedule, archivedAt |-> <<>>]}
         /\ nextId' = nextId + 1
         /\ lastReturn' = Returned("create", nextId)

\* toggleForDate without the check that the habit is the caller's.
ToggleForDateAnyOwner(who, habitId, dateKey, now) ==
    LET habit == GetHabit(habitId)
        existing == Unique({c \in habitCompletions :
                               c.habitId = habitId /\ c.dateKey = dateKey})
    IN  IF GetCurrentUserThrows(who)
        THEN /\ lastReturn' = Threw("toggleForDate")
             /\ UNCHANGED <<habitCompletions, nextId>>
        ELSE IF ~habit.found
        THEN /\ lastReturn' = Threw("toggleForDate")
             /\ UNCHANGED <<habitCompletions, nextId>>
        ELSE IF existing.threw
        THEN /\ lastReturn' = Threw("toggleForDate")
             /\ UNCHANGED <<habitCompletions, nextId>>
        ELSE IF existing.found
        THEN /\ habitCompletions' = habitCompletions \ {existing.doc}
             /\ lastReturn' = Returned("toggleForDate", [completed |-> FALSE])
             /\ UNCHANGED nextId
        ELSE /\ nextId <= MaxIds
             /\ habitCompletions' = habitCompletions \cup
                    {[_id |-> nextId, userId |-> UserByToken(who).doc._id,
                      habitId |-> habitId, dateKey |-> dateKey, completedAt |-> now]}
             /\ nextId' = nextId + 1
             /\ lastReturn' = Returned("toggleForDate", [completed |-> TRUE])

\* toggleForDate that answers completed: true on both branches.
ToggleForDateFlagAlwaysTrue(who, habitId, dateKey, now) ==
    LET habit == GetHabit(habitId)
        existing == Unique({c \in habitCompletions :
                               c.habitId = habitId /\ c.dateKey = dateKey})
    IN  IF GetCurrentUserThrows(who)
        THEN /\ lastReturn' = Threw("toggleForDate")
             /\ UNCHANGED <<habitCompletions, nextId>>
        ELSE IF ~habit.found \/ habit.doc.userId # UserByToken(who).doc._id
        THEN /\ lastReturn' = Threw("toggleForDate")
             /\ UNCHANGED <<habitCompletions, nextId>>
        ELSE IF existing.threw
        THEN /\ lastReturn' = Threw("toggleForDate")
             /\ UNCHANGED <<habitCompletions, nextId>>
        ELSE IF existing.found
        THEN /\ habitCompletions' = habitCompletions \ {existing.doc}
             /\ lastReturn' = Returned("toggleForDate", [completed |-> TRUE])
             /\ UNCHANGED nextId
        ELSE /\ nextId <= MaxIds
             /\ habitCompletions' = habitCompletions \cup
                    {[_id |-> nextId, userId |-> UserByToken(who).doc._id,
                      habitId |-> habitId, dateKey |-> dateKey, completedAt |-> now]}
             /\ nextId' = nextId + 1
             /\ lastReturn' = Returned("toggleForDate", [completed |-> TRUE])

\* toggleForDate without the lookup of an existing completion.
ToggleForDateAlwaysInsert(who, habitId, dateKey, now) ==
    LET habit == GetHabit(habitId)
    IN  IF GetCurrentUserThrows(who)
        THEN /\ lastReturn' = Threw("toggleForDate")
             /\ UNCHANGED <<habitCompletions, nextId>>
        ELSE IF ~habit.found \/ habit.doc.userId # UserByToken(who).doc._id
        THEN /\ lastReturn' = Threw("toggleForDate")
             /\ UNCHANGED <<habitCompletions, nextId>>
        ELSE /\ nextId <= MaxIds
             /\ habitCompletions' = habitCompletions \cup
                    {[_id |-> nextId, userId |-> UserByToken(who).doc._id,
                      habitId |-> habitId, dateKey |-> dateKey, completedAt |-> now]}
             /\ nextId' = nextId + 1
             /\ lastReturn' = Returned("toggleForDate", [completed |-> TRUE])

\* completions.toggleForDate
ToggleForDate(who, habitId, dateKey, now) ==
    LET habit == GetHabit(habitId)
        existing == Unique({c \in habitCompletions :
                               c.habitId = habitId /\ c.dateKey = dateKey})
    IN  IF GetCurrentUserThrows(who)
        THEN /\ lastReturn' = Threw("toggleForDate")
             /\ UNCHANGED <<habitCompletions, nextId>>
        ELSE IF ~habit.found \/ habit.doc.userId # UserByToken(who).doc._id
        THEN /\ lastReturn' = Threw("toggleForDate")
             /\ UNCHANGED <<habitCompletions, nextId>>
        ELSE IF existing.threw
        THEN /\ lastReturn' = Threw("toggleForDate")
             /\ UNCHANGED <<habitCompletions, nextId>>
        ELSE IF existing.found
        THEN /\ habitCompletions' = habitCompletions \ {existing.doc}
             /\ lastReturn' = Returned("toggleForDate", [completed |-> FALSE])
             /\ UNCHANGED nextId
        ELSE /\ nextId <= MaxIds
             /\ habitCompletions' = habitCompletions \cup
                    {[_id |-> nextId, userId |-> UserByToken(who).doc._id,
                      habitId |-> habitId, dateKey |-> dateKey, completedAt |-> now]}
             /\ nextId' = nextId + 1
             /\ lastReturn' = Returned("toggleForDate", [completed |-> TRUE])

\* habits.update; an argument left out (undefined) is <<>>.
Update(who, habitId, titleArg, notesArg, colorArg, scheduleArg) ==
    LET habit == GetHabit(habitId)
    IN  IF GetCurrentUserThrows(who)
        THEN /\ lastReturn' = Threw("update")
             /\ UNCHANGED habits
        ELSE IF ~habit.found \/ habit.doc.userId # UserByToken(who).doc._id
        THEN /\ lastReturn' = Threw("update")
             /\ UNCHANGED habits
        ELSE /\ habits' = (habits \ {habit.doc}) \cup
                    {[habit.doc EXCEPT
                        !.title = IF titleArg # <<>> THEN titleArg[1] ELSE @,
                        !.notes = IF notesArg # <<>> THEN notesArg ELSE @,
                        !.color = IF colorArg # <<>> THEN colorArg[1] ELSE @,
                        !.schedule = IF scheduleArg # <<>> THEN scheduleArg[1] ELSE @]}
             /\ lastReturn' = Returned("update", habitId)

\* ctx.db.patch(habitId, {archivedAt}): the habit with its archivedAt set, or
\* removed when the value is undefined (<<>>).
PatchArchivedAt(habitId, value) ==
    { IF h._id = habitId THEN [h EXCEPT !.archivedAt = value] ELSE h : h \in habits }

\* habits.unarchive that leaves archivedAt as it is.
UnarchiveKeepsArchivedAt(who, habitId) ==
    LET habit == GetHabit(habitId)
    IN  IF GetCurrentUserThrows(who)
        THEN /\ lastReturn' = Threw("unarchive")
             /\ UNCHANGED habits
        ELSE IF ~habit.found \/ habit.doc.userId # UserByToken(who).doc._id
        THEN /\ lastReturn' = Threw("unarchive")
             /\ UNCHANGED habits
        ELSE /\ UNCHANGED habits
             /\ lastReturn' = Returned("unarchive", habitId)

\* habits.archive
Archive(who, habitId, now) ==
    LET habit == GetHabit(habitId)
    IN  IF GetCurrentUserThrows(who)
        THEN /\ lastReturn' = Threw("archive")
             /\ UNCHANGED habits
        ELSE IF ~habit.found \/ habit.doc.userId # UserByToken(who).doc._id
        THEN /\ lastReturn' = Threw("archive")
             /\ UNCHANGED habits
        ELSE /\ habits' = PatchArchivedAt(habitId, <<now>>)
             /\ lastReturn' = Returned("archive", habitId)

\* habits.unarchive
Unarchive(who, habitId) ==
    LET habit == GetHabit(habitId)
    IN  IF GetCurrentUserThrows(who)
        THEN /\ lastReturn' = Threw("unarchive")
             /\ UNCHANGED habits
        ELSE IF ~habit.found \/ habit.doc.userId # UserByToken(who).doc._id
        THEN /\ lastReturn' = Threw("unarchive")
             /\ UNCHANGED habits
        ELSE /\ habits' = PatchArchivedAt(habitId, <<>>)
             /\ lastReturn' = Returned("unarchive", habitId)

\* !h.archivedAt is false: the field is set and is not 0.  An instant of the
\* model is never the epoch (instants are counted from 2024-02-29).
IsArchived(h) == h.archivedAt # <<>>

\* habits.list (a query: it reads, and returns [] to a caller without
\* identity or users row)
list(who) ==
    LET user == UserByToken(who)
    IN  IF who = None THEN Returned("list", {})
        ELSE IF user.threw THEN Threw("list")
        ELSE IF ~user.found THEN Returned("list", {})
        ELSE Returned("list", {h \in habits : h.userId = user.doc._id /\ ~IsArchived(h)})

\* getDashboard that counts the completions of every user.
getDashboardCountsEveryUser(who, today, heatmapStart) ==
    LET user == UserByToken(who)
    IN  IF who = None THEN Returned("getDashboard", <<>>)
        ELSE IF user.threw THEN Threw("getDashboard")
        ELSE IF ~user.found THEN Returned("getDashboard", <<>>)
        ELSE
          LET activeHabits == {h \in habits : h.userId = user.doc._id /\ ~IsArchived(h)}
              filteredCompletions ==
                  {c \in habitCompletions :
                      /\ StrLeq(heatmapStart, c.dateKey)
                      /\ StrLeq(c.dateKey, today)}
              completedOf(habitId) == {c.dateKey : c \in {x \in filteredCompletions :
                                                            x.habitId = habitId}}
              countOn(dateKey) == Cardinality({c \in filteredCompletions :
                                                  c.dateKey = dateKey})
          IN  Returned("getDashboard",
                <<[user |-> [_id |-> user.doc._id, name |-> user.doc.name,
                             timeZone |-> user.doc.timeZone,
                             graceMinutes |-> user.doc.graceMinutes],
                   todayDateKey |-> today,
                   habits |-> {[habit |-> h, isCompletedToday |-> today \in completedOf(h._id)] :
                                  h \in activeHabits},
                   heatmapData |-> {[dateKey |-> c.dateKey, count |-> countOn(c.dateKey)] :
                                       c \in filteredCompletions}]>>)

\* dashboard.getDashboard (a query); null is <<>>.  The arrays it returns are
\* given as sets.
getDashboard(who, today, heatmapStart) ==
    LET user == UserByToken(who)
    IN  IF who = None THEN Returned("getDashboard", <<>>)
        ELSE IF user.threw THEN Threw("getDashboard")
        ELSE IF ~user.found THEN Returned("getDashboard", <<>>)
        ELSE
          LET activeHabits == {h \in habits : h.userId = user.doc._id /\ ~IsArchived(h)}
              filteredCompletions ==
                  {c \in habitCompletions :
                      /\ c.userId = user.doc._id
                      /\ StrLeq(heatmapStart, c.dateKey)
                      /\ StrLeq(c.dateKey, today)}
              completedOf(habitId) == {c.dateKey : c \in {x \in filteredCompletions :
                                                            x.habitId = habitId}}
              countOn(dateKey) == Cardinality({c \in filteredCompletions :
                                                  c.dateKey = dateKey})
          IN  Returned("getDashboard",
                <<[user |-> [_id |-> user.doc._id, name |-> user.doc.name,
                             timeZone |-> user.doc.timeZone,
                             graceMinutes |-> user.doc.graceMinutes],
                   todayDateKey |-> today,
                   habits |-> {[habit |-> h, isCompletedToday |-> today \in completedOf(h._id)] :
                                  h \in activeHabits},
                   heatmapData |-> {[dateKey |-> c.dateKey, count |-> countOn(c.dateKey)] :
                                       c \in filteredCompletions}]>>)

\* habits.get (a query); null is <<>>.
get(who, habitId) ==
    LET user == UserByToken(who)
        habit == GetHabit(habitId)
    IN  IF who = None THEN Returned("get", <<>>)
        ELSE IF user.threw THEN Threw("get")
        ELSE IF ~user.found THEN Returned("get", <<>>)
        ELSE IF ~habit.found \/ habit.doc.userId # user.doc._id THEN Returned("get", <<>>)
        ELSE Returned("get", <<habit.doc>>)

\* completions.getForHabitInRange without the check that the habit is the
\* caller's.
getForHabitInRangeAnyOwner(who, habitId, startDateKey, endDateKey) ==
    LET user == UserByToken(who)
        habit == GetHabit(habitId)
    IN  IF who = None THEN Returned("getForHabitInRange", {})
        ELSE IF user.threw THEN Threw("getForHabitInRange")
        ELSE IF ~user.found THEN Returned("getForHabitInRange", {})
        ELSE IF ~habit.found THEN Returned("getForHabitInRange", {})
        ELSE Returned("getForHabitInRange",
                {c \in habitCompletions :
                    /\ c.habitId = habitId
                    /\ StrLeq(startDateKey, c.dateKey)
                    /\ StrLeq(c.dateKey, endDateKey)})

\* completions.getForHabitInRange (a query)
getForHabitInRange(who, habitId, startDateKey, endDateKey) ==
    LET user == UserByToken(who)
        habit == GetHabit(habitId)
    IN  IF who = None THEN Returned("getForHabitInRange", {})
        ELSE IF user.threw THEN Threw("getForHabitInRange")
        ELSE IF ~user.found THEN Returned("getForHabitInRange", {})
        ELSE IF ~habit.found \/ habit.doc.userId # user.doc._id
        THEN Returned("getForHabitInRange", {})
        ELSE Returned("getForHabitInRange",
                {c \in habitCompletions :
                    /\ c.habitId = habitId
                    /\ StrLeq(startDateKey, c.dateKey)
                    /\ StrLeq(c.dateKey, endDateKey)})

\* completions.getForUserInRange (a query)
getForUserInRange(who, startDateKey, endDateKey) ==
    LET user == UserByToken(who)
    IN  IF who = None THEN Returned("getForUserInRange", {})
        ELSE IF user.threw THEN Threw("getForUserInRange")
        ELSE IF ~user.found THEN Returned("getForUserInRange", {})
        ELSE Returned("getForUserInRange",
                {c \in habitCompletions :
                    /\ c.userId = user.doc._id
                    /\ StrLeq(startDateKey, c.dateKey)
                    /\ StrLeq(c.dateKey, endDateKey)})

\* dashboard.getHabitDetail (a query); null is <<>>.  The arrays it returns
\* are given as sets.
getHabitDetail(who, habitId, today, historyStart) ==
    LET user == UserByToken(who)
        habit == GetHabit(habitId)
    IN  IF who = None THEN Returned("getHabitDetail", <<>>)
        ELSE IF user.threw THEN Threw("getHabitDetail")
        ELSE IF ~user.found THEN Returned("getHabitDetail", <<>>)
        ELSE IF ~habit.found \/ habit.doc.userId # user.doc._id
        THEN Returned("getHabitDetail", <<>>)
        ELSE
          LET filteredCompletions ==
                  {c \in habitCompletions :
                      /\ c.habitId = habitId
                      /\ StrLeq(historyStart, c.dateKey)
                      /\ StrLeq(c.dateKey, today)}
          IN  Returned("getHabitDetail",
                <<[habit |-> habit.doc,
                   completedDates |-> {c.dateKey : c \in filteredCompletions},
                   heatmapData |-> {[dateKey |-> c.dateKey, completedAt |-> c.completedAt] :
                                       c \in filteredCompletions},
                   user |-> [timeZone |-> user.doc.timeZone,
                             graceMinutes |-> user.doc.graceMinutes]]>>)

\* The ids a client can send as a habit id: those of the habits and one that
\* names no habit.
HabitIdArgs == {h._id : h \in habits} \cup {0}

CallStore ==
    /\ \E who \in Identities \cup {None} : \E name \in NamesOf(who) : Store(who, name)
    /\ UNCHANGED <<habits, habitCompletions>>
    /\ UNCHANGED <<streakVars, uiVars, schedVars, rangeVars, tdkVars, pageVars, libVars>>

CallUpdateSettings ==
    /\ \E who \in Identities \cup {None} :
       \E tzArg \in {<<>>, <<"America/New_York">>} :
       \E graceArg \in {<<>>, <<0>>} :
          UpdateSettings(who, tzArg, graceArg)
    /\ UNCHANGED <<habits, habitCompletions>>
    /\ UNCHANGED <<streakVars, uiVars, schedVars, rangeVars, tdkVars, pageVars, libVars>>

CallCreateHabit ==
    /\ \E who \in Identities \cup {None} : \E schedule \in AppSchedules :
          CreateHabit(who, "Run", "#10b981", schedule)
    /\ UNCHANGED <<users, habitCompletions>>
    /\ UNCHANGED <<streakVars, uiVars, schedVars, rangeVars, tdkVars, pageVars, libVars>>

CallToggleForDate ==
    /\ \E who \in Identities \cup {None} : \E habitId \in HabitIdArgs :
       \E dateKey \in AppKeys : \E now \in AppNows :
          ToggleForDate(who, habitId, dateKey, now)
    /\ UNCHANGED <<users, habits>>
    /\ UNCHANGED <<streakVars, uiVars, schedVars, rangeVars, tdkVars, pageVars, libVars>>

Next ==
    \/ CallStore
    \/ CallCreateHabit
    \/ CallToggleForDate

Init == UiIdle /\ StreakIdle /\ SchedIdle /\ RangeIdle /\ TdkIdle /\ AppIdle /\ LibIdle

Spec == Init /\ [][Next]_vars

\* C3: the habitCompletions table holds at most one record for each pair of
\* a habit and a date key.
C3_OneCompletionPerHabitAndDate ==
    \A c1 \in habitCompletions : \A c2 \in habitCompletions :
        (c1.habitId = c2.habitId /\ c1.dateKey = c2.dateKey) => c1 = c2

\* C3 witness: a toggle has just created a completion, two completions of
\* one habit are stored, and an earlier completion has been removed (more
\* ids were given out than documents are left).
C3_Witness ==
    /\ lastReturn = Returned("toggleForDate", [completed |-> TRUE])
    /\ \E c1 \in habitCompletions : \E c2 \in habitCompletions :
          c1.habitId = c2.habitId /\ c1.dateKey # c2.dateKey
    /\ nextId - 1 > Cardinality(users) + Cardinality(habits) + Cardinality(habitCompletions)

\* The date keys a client sends as the ends of the heatmap range: the two
\* keys of the completions and the day after them.
HeatmapRangeKeys == AppKeys \cup { formatDateKey(2024, 3, 2) }

\* The calendar day a key of HeatmapRangeKeys names.
HeatmapRangeDay(key) ==
    CHOOSE n \in DaysFromCivil(2024, 2, 29)..DaysFromCivil(2024, 3, 2) : KeyOfDay(n) = key

\* C26: heatmapData of getDashboard has exactly one entry for each date key
\* from heatmapStartDateKey to todayDateKey on which the caller has a
\* completion record, with the number of the caller's records of that date
\* as its count, and no other entry.
C26_HeatmapDataCountsCallersCompletions ==
    \A u \in users : \A start \in HeatmapRangeKeys : \A today \in HeatmapRangeKeys :
        LET ret == getDashboard(u.tokenIdentifier, today, start)
            data == ret.value[1].heatmapData
            mine(d) == {c \in habitCompletions : c.userId = u._id /\ c.dateKey = d}
            inRange(d) == /\ HeatmapRangeDay(start) <= HeatmapRangeDay(d)
                          /\ HeatmapRangeDay(d) <= HeatmapRangeDay(today)
        IN  /\ ~ret.threw /\ ret.value # <<>>
            /\ \A d \in AppKeys :
                  (inRange(d) /\ mine(d) # {})
                  => /\ Cardinality({e \in data : e.dateKey = d}) = 1
                     /\ \A e \in data : e.dateKey = d => e.count = Cardinality(mine(d))
            /\ \A e \in data : e.dateKey \in AppKeys /\ inRange(e.dateKey)
                               /\ mine(e.dateKey) # {}

\* C26 witness: a person has two completions on 2024-03-01, on two habits,
\* and one on 2024-02-29, and their heatmap from 2024-03-01 to 2024-03-02 is
\* the one entry with count 2.
C26_Witness ==
    /\ Cardinality(habitCompletions) = 3
    /\ \E u \in users :
          /\ \E c \in habitCompletions :
                c.userId = u._id /\ c.dateKey = formatDateKey(2024, 2, 29)
          /\ getDashboard(u.tokenIdentifier, formatDateKey(2024, 3, 2),
                          formatDateKey(2024, 3, 1)).value[1].heatmapData
             = {[dateKey |-> formatDateKey(2024, 3, 1), count |-> 2]}

-----------------------------------------------------------------------------
(* The Dashboard and HabitDetail pages of a browser whose user is signed    *)
(* in: what they take as today, next to the settings stored for the user    *)

Pages == {"Dashboard", "HabitDetail"}

\* The date key both pages memoise when they mount: toDateKey with the
\* browser's zone and 180 grace minutes, at Date.now().
PageTodayKey(now, browserZone) == toDateKey(now, browserZone, 180)

PageInit ==
    /\ identity \in Identities
    /\ browserTimeZone \in {"UTC", "America/New_York"}
    /\ page = None
    /\ pageToday = <<>>
    /\ pageMountedAt = 0
    /\ DbInit
    /\ UiIdle /\ StreakIdle /\ SchedIdle /\ RangeIdle /\ TdkIdle /\ LibIdle

\* A page mounts: useMemo(..., []) computes todayDateKey once.
MountPage ==
    /\ page = None
    /\ \E p \in Pages : \E now \in AppNows :
          /\ page' = p
          /\ pageMountedAt' = now
          /\ pageToday' = <<PageTodayKey(now, browserTimeZone)>>
    /\ UNCHANGED <<identity, browserTimeZone, dbVars>>
    /\ UNCHANGED <<streakVars, uiVars, schedVars, rangeVars, tdkVars, libVars>>

\* The user leaves the page.
UnmountPage ==
    /\ page # None
    /\ page' = None
    /\ pageToday' = <<>>
    /\ pageMountedAt' = 0
    /\ UNCHANGED <<identity, browserTimeZone, dbVars>>
    /\ UNCHANGED <<streakVars, uiVars, schedVars, rangeVars, tdkVars, libVars>>

PageNext ==
    \/ CallStore
    \/ CallUpdateSettings
    \/ MountPage
    \/ UnmountPage

PageSpec == PageInit /\ [][PageNext]_vars

\* C9: the today of a mounted page is toDateKey with the time zone and grace
\* minutes stored for the signed-in user.
C9_PageTodayUsesStoredSettings ==
    \A u \in users :
        (page # None /\ u.tokenIdentifier = identity)
        => pageToday = <<toDateKey(pageMountedAt, u.timeZone, u.graceMinutes)>>

-----------------------------------------------------------------------------
(* subtractDays, addDays and daysBetween, called on the calendar keys of    *)
(* the model and on the keys around the first day of year 0100, with day    *)
(* counts from -MaxShift to MaxShift                                        *)

MaxShift == 2

\* The YYYY-MM-DD key of a calendar day of the years 0000 to 9999: the year
\* at width 4.
DateKeyOfDay(n) ==
    LET c == CivilFromDays(n)
        y == NumToStr(c.year)
        yyyy == [i \in 1..(4 - Len(y)) |-> Ch0] \o y
    IN  yyyy \o <<ChHyphen>> \o padStart2(NumToStr(c.month))
             \o <<ChHyphen>> \o padStart2(NumToStr(c.day))

\* The days the arithmetic is called on.
CalcDays == ModelDays \cup { DaysFromCivil(100, 1, 1) - 1, DaysFromCivil(100, 1, 1) }
CalcKeys == { DateKeyOfDay(n) : n \in CalcDays }

CalcInit ==
    /\ calcKey \in CalcKeys
    /\ calcOther \in CalcKeys
    /\ calcDays \in (0 - MaxShift)..MaxShift
    /\ calcSub = <<>>
    /\ calcBack = <<>>
    /\ calcBetween = <<>>
    /\ UiIdle /\ StreakIdle /\ SchedIdle /\ RangeIdle /\ TdkIdle /\ AppIdle
    /\ ParseIdle /\ RuleFmtIdle /\ HistoryIdle

\* subtractDays(calcKey, calcDays)
SubtractDays ==
    /\ calcSub = <<>>
    /\ calcSub' = <<subtractDays(calcKey, calcDays)>>
    /\ UNCHANGED <<calcKey, calcOther, calcDays, calcBack, calcBetween>>
    /\ UNCHANGED <<streakVars, uiVars, schedVars, rangeVars, tdkVars, appVars, parseVars, ruleFmtVars, historyVars>>

\* addDays(the key subtractDays returned, calcDays)
AddDays ==
    /\ calcSub # <<>>
    /\ calcBack = <<>>
    /\ calcBack' = <<addDays(calcSub[1], calcDays)>>
    /\ UNCHANGED <<calcKey, calcOther, calcDays, calcSub, calcBetween>>
    /\ UNCHANGED <<streakVars, uiVars, schedVars, rangeVars, tdkVars, appVars, parseVars, ruleFmtVars, historyVars>>

\* daysBetween(calcKey, calcOther)
DaysBetween ==
    /\ calcBetween = <<>>
    /\ calcBetween' = <<daysBetween(calcKey, calcOther)>>
    /\ UNCHANGED <<calcKey, calcOther, calcDays, calcSub, calcBack>>
    /\ UNCHANGED <<streakVars, uiVars, schedVars, rangeVars, tdkVars, appVars, parseVars, ruleFmtVars, historyVars>>

CalcNext ==
    \/ SubtractDays
    \/ AddDays
    \/ DaysBetween

CalcSpec == CalcInit /\ [][CalcNext]_vars

\* The calendar day a key names: its year, month and day numbers read as a
\* Gregorian date.
NamedDay(key) ==
    LET p == parseDateKey(key)
    IN  DaysFromCivil(p.year, p.month, p.day)

\* The keys a call has been given or has returned.
CalcKeysInState == {calcKey, calcOther} \cup Range(calcSub) \cup Range(calcBack)

\* Whether a key names a day of the years 1000 to 9999.
FourDigitYear(key) ==
    /\ NamedDay(key) >= DaysFromCivil(1000, 1, 1)
    /\ NamedDay(key) <= LastDay

\* C12: for the keys given to and returned by subtractDays and addDays,
\* d1 < d2 as strings iff d1 names an earlier calendar day than d2.
C12_StringOrderIsChronological ==
    \A d1 \in CalcKeysInState : \A d2 \in CalcKeysInState :
        StrLt(d1, d2) <=> NamedDay(d1) < NamedDay(d2)

\* The statement of C12 for keys of the years 1000 to 9999.
StringOrderIsChronologicalInFourDigitYears ==
    \A d1 \in CalcKeysInState : \A d2 \in CalcKeysInState :
        (FourDigitYear(d1) /\ FourDigitYear(d2))
        => (StrLt(d1, d2) <=> NamedDay(d1) < NamedDay(d2))

\* C13: addDays(subtractDays(d, n), n) = d.
C13_AddUndoesSubtract ==
    calcBack # <<>> => calcBack = <<calcKey>>

\* The statement of C13 for the keys d of the years 1000 to 9999.
AddUndoesSubtractInFourDigitYears ==
    (calcBack # <<>> /\ FourDigitYear(calcKey)) => calcBack = <<calcKey>>

\* subtractDays moves by whole calendar days with Gregorian carries: from a
\* day of the years 1000 to 9999, the key returned is the key of the day
\* calcDays before.
SubtractDaysIsCalendarShift ==
    (calcSub # <<>> /\ FourDigitYear(calcKey))
    => calcSub = <<KeyOfDay(NamedDay(calcKey) - calcDays)>>

\* C15: daysBetween(s, e) is the number of calendar days from s to e, so
\* that addDays(s, daysBetween(s, e)) = e and daysBetween(e, s) is its
\* negation, and it is 0 iff s = e.
C15_DaysBetweenIsSignedDayCount ==
    calcBetween # <<>> =>
        LET n == calcBetween[1]
        IN  /\ n = NamedDay(calcOther) - NamedDay(calcKey)
            /\ addDays(calcKey, n) = calcOther
            /\ daysBetween(calcOther, calcKey) = 0 - n
            /\ (n = 0 <=> calcKey = calcOther)

\* The statement of C15 for keys of the years 1000 to 9999.
DaysBetweenIsSignedDayCountInFourDigitYears ==
    (FourDigitYear(calcKey) /\ FourDigitYear(calcOther))
    => C15_DaysBetweenIsSignedDayCount

-----------------------------------------------------------------------------
(* formatDateKey and parseDateKey: a key formatted from every (year, month, *)
(* day) of a few years and parsed back, and parseDateKey called on texts    *)
(* that are not date keys                                                   *)

\* The years formatDateKey is called with: one of each width, the first and
\* the last.
FmtYears == {0, 50, 999, 2024, 9999}

\* The (year, month, day) triples with month in 1..12 and day in 1..31.
FmtTriples == FmtYears \X (1..12) \X (1..31)

\* Texts handed to parseDateKey that are not YYYY-MM-DD keys: the empty
\* text, letters, no hyphens, a part missing, a part too many, an empty
\* part, unpadded parts, month 13 and month 00.
MalformedTexts ==
    { <<>>,
      <<Cha, Cha, Cha>>,
      <<50, 48, 50, 52, 48, 51, 48, 49>>,
      <<50, 48, 50, 52, ChHyphen, 48, 51>>,
      <<50, 48, 50, 52, ChHyphen, 48, 51, ChHyphen, 48, 49, ChHyphen, 48, 53>>,
      <<50, 48, 50, 52, ChHyphen, ChHyphen, 48, 49>>,
      <<50, 48, 50, 52, ChHyphen, 51, ChHyphen, 49>>,
      <<Cha, Cha, Cha, Cha, ChHyphen, 48, 51, ChHyphen, 48, 49>>,
      <<50, 48, 50, 52, ChHyphen, 49, 51, ChHyphen, 48, 49>>,
      <<50, 48, 50, 52, ChHyphen, 48, 48, ChHyphen, 49, 48>> }

\* Either a triple to format and parse back, or a text to parse.
ParseInit ==
    /\ \/ fmtArgs \in FmtTriples /\ parseText = <<>>
       \/ fmtArgs = <<>> /\ parseText \in { <<t>> : t \in MalformedTexts \cup CalendarKeys }
    /\ fmtOut = <<>>
    /\ parseOut = <<>>
    /\ UiIdle /\ StreakIdle /\ SchedIdle /\ RangeIdle /\ TdkIdle /\ AppIdle
    /\ CalcIdle /\ RuleFmtIdle /\ HistoryIdle

\* formatDateKey(year, month, day)
FormatDateKey ==
    /\ fmtArgs # <<>>
    /\ fmtOut = <<>>
    /\ fmtOut' = <<formatDateKey(fmtArgs[1], fmtArgs[2], fmtArgs[3])>>
    /\ UNCHANGED <<fmtArgs, parseText, parseOut>>
    /\ UNCHANGED <<streakVars, uiVars, schedVars, rangeVars, tdkVars, appVars, calcVars, ruleFmtVars, historyVars>>

\* parseDateKey(text), the text being the one given or the key formatDateKey
\* returned.  The function has no throw statement and calls nothing that
\* throws on a string: every call returns an object.
ParseDateKey ==
    /\ parseOut = <<>>
    /\ parseText # <<>> \/ fmtOut # <<>>
    /\ LET text == IF parseText # <<>> THEN parseText[1] ELSE fmtOut[1]
       IN  parseOut' = <<[threw |-> FALSE, value |-> parseDateKey(text)]>>
    /\ UNCHANGED <<fmtArgs, fmtOut, parseText>>
    /\ UNCHANGED <<streakVars, uiVars, schedVars, rangeVars, tdkVars, appVars, calcVars, ruleFmtVars, historyVars>>

ParseNext ==
    \/ FormatDateKey
    \/ ParseDateKey

ParseSpec == ParseInit /\ [][ParseNext]_vars

\* Whether a code unit is a decimal digit.
IsDigit(c) == c >= Ch0 /\ c <= Ch9

\* Whether a text has the YYYY-MM-DD shape with a month from 01 to 12.
IsDateKeyText(t) ==
    /\ Len(t) = 10
    /\ t[5] = ChHyphen /\ t[8] = ChHyphen
    /\ \A i \in {1, 2, 3, 4, 6, 7, 9, 10} : IsDigit(t[i])
    /\ (t[6] - Ch0) * 10 + (t[7] - Ch0) \in 1..12

\* C14: parseDateKey called on a text that is not of the YYYY-MM-DD shape
\* with a month from 1 to 12 reports an error and returns no value.
C14_ParseRejectsMalformed ==
    (parseOut # <<>> /\ parseText # <<>> /\ ~IsDateKeyText(parseText[1]))
    => parseOut[1].threw

\* What parseDateKey does on the texts that are date keys: the three numbers
\* of the key.
ParseReadsDateKeys ==
    (parseOut # <<>> /\ parseText # <<>> /\ IsDateKeyText(parseText[1]))
    => /\ ~parseOut[1].threw
       /\ KeyOfDay(DaysFromCivil(parseOut[1].value.year, parseOut[1].value.month,
                                 parseOut[1].value.day)) = parseText[1]

\* The two decimal digits of a number below 100, as text.
TwoDigits(n) == <<Ch0 + (n \div 10), Ch0 + (n % 10)>>

\* C16: parseDateKey(formatDateKey(year, month, day)) = (year, month, day)
\* for month in 1..12 and day in 1..31, and formatDateKey writes month and
\* day at width 2, padded with zeros.
C16_ParseUndoesFormat ==
    /\ (fmtArgs # <<>> /\ fmtOut # <<>>) =>
          LET parts == split(fmtOut[1])
          IN  /\ Len(parts) = 3
              /\ parts[2] = TwoDigits(fmtArgs[2])
              /\ parts[3] = TwoDigits(fmtArgs[3])
    /\ (fmtArgs # <<>> /\ parseOut # <<>>) =>
          /\ ~parseOut[1].threw
          /\ parseOut[1].value =
                [year |-> fmtArgs[1], month |-> fmtArgs[2], day |-> fmtArgs[3]]

\* C16 witness: (2024, 3, 5) formatted as 2024-03-05 and parsed back.
C16_Witness ==
    /\ fmtArgs = <<2024, 3, 5>>
    /\ fmtOut = << <<50, 48, 50, 52, ChHyphen, 48, 51, ChHyphen, 48, 53>> >>
    /\ parseOut = <<[threw |-> FALSE, value |-> [year |-> 2024, month |-> 3, day |-> 5]]>>

-----------------------------------------------------------------------------
(* formatScheduleRule, called on weekly rules whose weekdays are stored in  *)
(* every order, and on rules of the other kinds                             *)

\* The sequences that hold each element of a set once: the orders in which
\* the set can be stored.
OrdersOf(set) ==
    { f \in [1..Cardinality(set) -> set] : \A i, j \in 1..Cardinality(set) : i # j => f[i] # f[j] }

\* Some of the orders of the whole week: ascending from each day, and
\* descending from each day.
WeekOrders ==
    { [i \in 1..7 |-> (k + i - 1) % 7] : k \in 0..6 } \cup
    { [i \in 1..7 |-> (k + 7 - i) % 7] : k \in 0..6 }

\* Weekday sets of five or two days other than Monday-Friday and
\* Saturday-Sunday, and smaller sets.
OtherWeekdaySets ==
    { {0, 1, 2, 3, 4}, {2, 3, 4, 5, 6}, {0, 1, 3, 5, 6}, {1, 3}, {0, 5}, {1, 6}, {1, 3, 5},
      {6}, {} }

FmtRules ==
    { [kind |-> "daily"] }
    \cup { [kind |-> "weekly", weekdays |-> w] : w \in OrdersOf({1, 2, 3, 4, 5}) }
    \cup { [kind |-> "weekly", weekdays |-> w] : w \in OrdersOf({0, 6}) }
    \cup { [kind |-> "weekly", weekdays |-> w] : w \in WeekOrders }
    \cup { [kind |-> "weekly", weekdays |-> w] : w \in UNION { OrdersOf(d) : d \in OtherWeekdaySets } }
    \cup { [kind |-> "monthly", daysOfMonth |-> d] :
              d \in { <<1, 15>>, <<2, 3, 4>>, <<11, 12, 13>>, <<21, 22, 23, 31>>, <<>> } }
    \cup { [kind |-> "yearly", month |-> 2, day |-> 29],
           [kind |-> "yearly", month |-> 12, day |-> 25] }

RuleFmtInit ==
    /\ fmtRule \in { <<r>> : r \in FmtRules }
    /\ fmtRuleOut = <<>>
    /\ UiIdle /\ StreakIdle /\ SchedIdle /\ RangeIdle /\ TdkIdle /\ AppIdle
    /\ CalcIdle /\ ParseIdle /\ HistoryIdle

\* formatScheduleRule(rule)
FormatScheduleRule ==
    /\ fmtRule # <<>>
    /\ fmtRuleOut = <<>>
    /\ fmtRuleOut' = <<formatScheduleRule(fmtRule[1])>>
    /\ UNCHANGED fmtRule
    /\ UNCHANGED <<streakVars, uiVars, schedVars, rangeVars, tdkVars, appVars, calcVars, parseVars, historyVars>>

RuleFmtNext == FormatScheduleRule

RuleFmtSpec == RuleFmtInit /\ [][RuleFmtNext]_vars

\* C17: formatScheduleRule returns "Weekdays" for the weekly set {1..5},
\* "Weekends" for the weekly set {0, 6}, and "Every day" for the weekly set
\* {0..6} and for a daily rule, in whatever order the weekdays are stored.
C17_NamedWeekdaySets ==
    fmtRuleOut # <<>> =>
        LET rule == fmtRule[1]
            days == IF rule.kind = "weekly" THEN Range(rule.weekdays) ELSE {}
        IN  /\ rule.kind = "daily" => fmtRuleOut = <<"Every day">>
            /\ (rule.kind = "weekly" /\ days = 0..6) => fmtRuleOut = <<"Every day">>
            /\ (rule.kind = "weekly" /\ days = 1..5) => fmtRuleOut = <<"Weekdays">>
            /\ (rule.kind = "weekly" /\ days = {0, 6}) => fmtRuleOut = <<"Weekends">>

\* The other answers of formatScheduleRule: day names in stored order,
\* ordinals of the days of the month, month name and day.
OtherRuleFormats ==
    fmtRuleOut # <<>> =>
        /\ fmtRule[1] = [kind |-> "weekly", weekdays |-> <<5, 3, 1>>]
              => fmtRuleOut = <<"Fri, Wed, Mon">>
        /\ fmtRule[1] = [kind |-> "weekly", weekdays |-> <<0, 1, 2, 3, 4>>]
              => fmtRuleOut = <<"Sun, Mon, Tue, Wed, Thu">>
        /\ fmtRule[1] = [kind |-> "monthly", daysOfMonth |-> <<11, 12, 13>>]
              => fmtRuleOut = <<"Monthly on 11th, 12th, 13th">>
        /\ fmtRule[1] = [kind |-> "monthly", daysOfMonth |-> <<21, 22, 23, 31>>]
              => fmtRuleOut = <<"Monthly on 21st, 22nd, 23rd, 31st">>
        /\ fmtRule[1] = [kind |-> "yearly", month |-> 2, day |-> 29]
              => fmtRuleOut = <<"Yearly on Feb 29">>

\* C17 witness: Monday to Friday stored as 5, 3, 1, 4, 2 formatted as
\* "Weekdays".
C17_Witness ==
    /\ fmtRule = <<[kind |-> "weekly", weekdays |-> <<5, 3, 1, 4, 2>>]>>
    /\ fmtRuleOut = <<"Weekdays">>

-----------------------------------------------------------------------------
(* toggleForDate, archive and unarchive called in every order by two people *)
(* who each own a habit, by a signed-in stranger who has no users row, and  *)
(* by a caller without identity                                             *)

\* The deployment after both people have signed in and created a habit.
SeedUsers ==
    { [_id |-> 1, name |-> "Alice", tokenIdentifier |-> "clerk|alice",
       timeZone |-> ServerTimeZone, graceMinutes |-> 180],
      [_id |-> 2, name |-> "Bob", tokenIdentifier |-> "clerk|bob",
       timeZone |-> ServerTimeZone, graceMinutes |-> 180] }
SeedHabits ==
    { [_id |-> 3, userId |-> 1, title |-> "Run", notes |-> <<>>, color |-> "#10b981",
       schedule |-> <<[kind |-> "weekly", weekdays |-> <<1, 2, 3, 4, 5>>]>>,
       archivedAt |-> <<>>],
      [_id |-> 4, userId |-> 2, title |-> "Run", notes |-> <<>>, color |-> "#10b981",
       schedule |-> <<[kind |-> "weekly", weekdays |-> <<1, 2, 3, 4, 5>>]>>,
       archivedAt |-> <<>>] }
SeedNextId == 5

\* Who can call: the two people, someone signed in who never had a users row
\* stored, and a caller without identity.
Callers == Identities \cup {"clerk|carol", None}

\* The set of (habit, date key) pairs that have a completion.
CompletedPairs == { <<c.habitId, c.dateKey>> : c \in habitCompletions }

HabitInit ==
    /\ users = SeedUsers
    /\ habits = SeedHabits
    /\ habitCompletions = {}
    /\ nextId = SeedNextId
    /\ lastReturn = [call |-> None]
    /\ toggleRun = <<>>
    /\ lastArchiveCall = [id \in {h._id : h \in SeedHabits} |-> "never"]
    /\ PageIdle
    /\ UiIdle /\ StreakIdle /\ SchedIdle /\ RangeIdle /\ TdkIdle
    /\ CalcIdle /\ ParseIdle /\ RuleFmtIdle

\* A toggleForDate call.  The record of calls keeps, for a call that
\* succeeded, the pair, the completed pairs before the first call of the run
\* and whether this is the first or the second call in a row on the pair.
HabitToggleForDate ==
    /\ \E who \in Callers : \E habitId \in HabitIdArgs :
       \E dateKey \in AppKeys : \E now \in AppNows :
          /\ ToggleForDate(who, habitId, dateKey, now)
          /\ toggleRun' =
                IF lastReturn'.threw THEN <<>>
                ELSE IF /\ toggleRun # <<>>
                        /\ toggleRun[1].pair = <<habitId, dateKey>>
                        /\ toggleRun[1].count = 1
                     THEN <<[toggleRun[1] EXCEPT !.count = 2]>>
                     ELSE <<[pair |-> <<habitId, dateKey>>, before |-> CompletedPairs,
                             count |-> 1]>>
    /\ UNCHANGED <<users, habits, lastArchiveCall>>
    /\ UNCHANGED <<streakVars, uiVars, schedVars, rangeVars, tdkVars, pageVars>>
    /\ UNCHANGED <<calcVars, parseVars, ruleFmtVars>>

\* An archive call.
HabitArchive ==
    /\ \E who \in Callers : \E habitId \in HabitIdArgs : \E now \in AppNows :
          /\ Archive(who, habitId, now)
          /\ lastArchiveCall' = IF lastReturn'.threw THEN lastArchiveCall
                                ELSE [lastArchiveCall EXCEPT ![habitId] = "archive"]
    /\ toggleRun' = <<>>
    /\ UNCHANGED <<users, habitCompletions, nextId>>
    /\ UNCHANGED <<streakVars, uiVars, schedVars, rangeVars, tdkVars, pageVars>>
    /\ UNCHANGED <<calcVars, parseVars, ruleFmtVars>>

\* An unarchive call.
HabitUnarchive ==
    /\ \E who \in Callers : \E habitId \in HabitIdArgs :
          /\ Unarchive(who, habitId)
          /\ lastArchiveCall' = IF lastReturn'.threw THEN lastArchiveCall
                                ELSE [lastArchiveCall EXCEPT ![habitId] = "unarchive"]
    /\ toggleRun' = <<>>
    /\ UNCHANGED <<users, habitCompletions, nextId>>
    /\ UNCHANGED <<streakVars, uiVars, schedVars, rangeVars, tdkVars, pageVars>>
    /\ UNCHANGED <<calcVars, parseVars, ruleFmtVars>>

HabitNext ==
    \/ HabitToggleForDate
    \/ HabitArchive
    \/ HabitUnarchive

HabitSpec == HabitInit /\ [][HabitNext]_vars

\* C18: a toggleForDate call by the owner removes the completion of the pair
\* when there is one and creates one when there is none, leaving every other
\* pair alone; the completed flag it returns tells whether the pair has a
\* completion after the call; and after two calls in a row on a pair the
\* completed pairs are those before the first.
C18_ToggleFlipsAndTwiceRestores ==
    toggleRun # <<>> =>
        LET run == toggleRun[1]
        IN  /\ lastReturn.call = "toggleForDate" /\ ~lastReturn.threw
            /\ lastReturn.value.completed = (run.pair \in CompletedPairs)
            /\ run.count = 1 =>
                  /\ (run.pair \in CompletedPairs) = (run.pair \notin run.before)
                  /\ CompletedPairs \ {run.pair} = run.before \ {run.pair}
            /\ run.count = 2 => CompletedPairs = run.before
            /\ \A c \in habitCompletions :
                  \E h \in habits : h._id = c.habitId /\ h.userId = c.userId

\* C18 witness: a second call in a row has removed the completion the first
\* had created, next to a completion of the same habit on the other day.
C18_Witness ==
    /\ toggleRun # <<>>
    /\ toggleRun[1].count = 2
    /\ toggleRun[1].before # {}
    /\ lastReturn = Returned("toggleForDate", [completed |-> FALSE])

\* Whether a toggleForDate call by who on habitId has to be refused: no
\* identity, no users row, no such habit, or a habit of another user.
MustRefuse(who, habitId) ==
    \/ who = None
    \/ ~\E u \in users : u.tokenIdentifier = who
    \/ ~\E h \in habits : h._id = habitId
    \/ \E h \in habits : \E u \in users :
          h._id = habitId /\ u.tokenIdentifier = who /\ h.userId # u._id

\* C19: a toggleForDate call that has to be refused throws and leaves the
\* habitCompletions table as it was.
C19_RefusedToggleChangesNothing ==
    [][\A who \in Callers : \A habitId \in HabitIdArgs :
       \A dateKey \in AppKeys : \A now \in AppNows :
          (ToggleForDate(who, habitId, dateKey, now) /\ MustRefuse(who, habitId))
          => /\ lastReturn' = Threw("toggleForDate")
             /\ habitCompletions' = habitCompletions]_vars

\* C19 witness: a toggleForDate call has thrown while completions of both
\* habits are stored.
C19_Witness ==
    /\ lastReturn = Threw("toggleForDate")
    /\ \A h \in habits : \E c \in habitCompletions : c.habitId = h._id

\* The token of the owner of a habit.
OwnerOf(h) == (CHOOSE u \in users : u._id = h.userId).tokenIdentifier

\* The ids of the habits a getDashboard result holds.
DashboardHabitIds(ret) ==
    IF ret.threw \/ ret.value = <<>> THEN {}
    ELSE { x.habit._id : x \in ret.value[1].habits }

\* C20: a habit is returned by habits.list and by getDashboard to its owner
\* iff no archive call succeeded on it or the last archive or unarchive call
\* that succeeded on it was unarchive; archive and unarchive leave the other
\* fields of the habit and the completion records as they were.
C20_ListedIffNotArchivedLast ==
    /\ [](\A h \in habits :
            LET shown == lastArchiveCall[h._id] \in {"never", "unarchive"}
            IN  /\ (h \in list(OwnerOf(h)).value) <=> shown
                /\ \A today \in AppKeys : \A start \in AppKeys :
                      (h._id \in DashboardHabitIds(getDashboard(OwnerOf(h), today, start)))
                      <=> shown
                /\ [h EXCEPT !.archivedAt = <<>>] \in SeedHabits)
    /\ [][(HabitArchive \/ HabitUnarchive) => habitCompletions' = habitCompletions]_vars

\* C20 witness: one habit archived and unarchived again, the other archived,
\* with a completion stored for each.
C20_Witness ==
    /\ lastArchiveCall = [id \in {3, 4} |-> IF id = 3 THEN "unarchive" ELSE "archive"]
    /\ \A h \in habits : \E c \in habitCompletions : c.habitId = h._id
    /\ lastReturn.call = "unarchive"

-----------------------------------------------------------------------------
(* users.store and users.updateSettings called in every order by the two    *)
(* people and by a caller without identity, from the empty tables           *)

StoreNext ==
    \/ CallStore
    \/ CallUpdateSettings

StoreSpec == Init /\ [][StoreNext]_vars

\* C21: the users table holds at most one row for each tokenIdentifier, and
\* a store call for an identity that has a row returns that row's id and
\* leaves the table as it was except for the name of that row (its timeZone
\* and graceMinutes stay).
C21_StoreKeepsOneRowPerToken ==
    /\ [](\A u1 \in users : \A u2 \in users :
            u1.tokenIdentifier = u2.tokenIdentifier => u1 = u2)
    /\ [][\A who \in Identities : \A name \in NamesOf(who) :
            (Store(who, name) /\ \E u \in users : u.tokenIdentifier = who)
            => LET old == CHOOSE u \in users : u.tokenIdentifier = who
               IN  /\ lastReturn' = Returned("store", old._id)
                   /\ \E new \in users' :
                         /\ new._id = old._id
                         /\ new.tokenIdentifier = old.tokenIdentifier
                         /\ new.timeZone = old.timeZone
                         /\ new.graceMinutes = old.graceMinutes
                         /\ users' \ {new} = users \ {old}]_vars

\* C21 witness: store has returned the id of a row whose settings had been
\* changed since it was created and whose name it has just replaced, with
\* both people stored.
C21_Witness ==
    /\ Cardinality(users) = 2
    /\ \E u \in users :
          /\ lastReturn = Returned("store", u._id)
          /\ u.name = "Alice B."
          /\ u.timeZone = "America/New_York"
          /\ u.graceMinutes = 0

-----------------------------------------------------------------------------
(* The queries, asked in every state of the deployment above by each of the *)
(* callers, for every habit id and every range of the date keys             *)

\* The _id of the caller's users row; 0, which is no document's id, when the
\* caller has no identity or no row.
CallerId(who) ==
    IF \E u \in users : u.tokenIdentifier = who
    THEN (CHOOSE u \in users : u.tokenIdentifier = who)._id
    ELSE 0

\* The habit records a getDashboard result holds.
DashboardHabits(ret) ==
    IF ret.value = <<>> THEN {} ELSE { x.habit : x \in ret.value[1].habits }

\* The habit records a get or getHabitDetail result holds.
HabitsIn(ret) ==
    IF ret.value = <<>> THEN {}
    ELSE IF ret.call = "get" THEN {ret.value[1]}
    ELSE {ret.value[1].habit}

\* C22: every habit and completion record a query returns has the caller's
\* users _id as its userId; to a caller without identity or users row, and
\* for a habit of another user, the queries return null or the empty list.
C22_QueriesReturnOwnRecordsOnly ==
    \A who \in Callers : \A habitId \in HabitIdArgs :
    \A start \in AppKeys : \A end \in AppKeys :
        LET me == CallerId(who)
            others == me = 0 \/ \E h \in habits : h._id = habitId /\ h.userId # me
            l == list(who)
            g == get(who, habitId)
            fh == getForHabitInRange(who, habitId, start, end)
            fu == getForUserInRange(who, start, end)
            d == getDashboard(who, end, start)
            hd == getHabitDetail(who, habitId, end, start)
        IN  /\ \A r \in {l, g, fh, fu, d, hd} : ~r.threw
            /\ \A h \in l.value \cup HabitsIn(g) \cup DashboardHabits(d) \cup HabitsIn(hd) :
                  h.userId = me
            /\ \A c \in fh.value \cup fu.value : c.userId = me
            /\ hd.value # <<>> =>
                  \A k \in hd.value[1].completedDates :
                     \E c \in habitCompletions :
                        c.userId = me /\ c.habitId = habitId /\ c.dateKey = k
            /\ me = 0 => l.value = {} /\ fu.value = {} /\ d.value = <<>>
            /\ others => g.value = <<>> /\ fh.value = {} /\ hd.value = <<>>

\* C22 witness: each person has a completion on each of their habits, so
\* that a query by one of them for the other's habit has records to withhold,
\* and has their own to return.
C22_Witness ==
    /\ \A h \in habits : \E c \in habitCompletions : c.habitId = h._id /\ c.userId = h.userId
    /\ \E k \in AppKeys : getForHabitInRange("clerk|alice", 3, k, k).value # {}
    /\ \E k \in AppKeys : getForHabitInRange("clerk|alice", 4, k, k).value = {}
    /\ getHabitDetail("clerk|bob", 3, formatDateKey(2024, 3, 1),
                      formatDateKey(2024, 2, 29)).value = <<>>
    /\ get("clerk|bob", 4).value # <<>>

-----------------------------------------------------------------------------
(* src/components/Heatmap.tsx: the grid built by the component's useMemo,   *)
(* for every today of a run of days holding each day of the week four       *)
(* times and the leap day, and every number of weeks up to MaxWeeks         *)

MaxWeeks == 3
MaxHeatDays == 28

\* A cell of the grid that holds no date (null).
NullCell == <<>>

\* The two nested loops over col and row, as one loop over k = col * 7 + row;
\* grid[row + 1] is the source's grid[row].
RECURSIVE GridLoop(_, _, _, _, _)
GridLoop(grid, currentDate, k, cells, today) ==
    IF k >= cells THEN grid
    ELSE LET row == k % 7
         IN  IF getDayOfWeek(currentDate) = row
             THEN GridLoop([grid EXCEPT ![row + 1] =
                               Append(@, IF StrLeq(currentDate, today)
                                         THEN currentDate ELSE NullCell)],
                           addDays(currentDate, 1), k + 1, cells, today)
             ELSE GridLoop([grid EXCEPT ![row + 1] = Append(@, NullCell)],
                           currentDate, k + 1, cells, today)

\* The grid of the useMemo, for a numeric weeks prop (effectiveWeeks = weeks).
HeatmapGrid(today, effectiveWeeks) ==
    LET totalDays == effectiveWeeks * 7
        rawStartDate == subtractDays(today, totalDays - 1)
        startDayOfWeek == getDayOfWeek(rawStartDate)
        startDate == subtractDays(rawStartDate, startDayOfWeek)
        todayDayOfWeek == getDayOfWeek(today)
        actualTotalDays == effectiveWeeks * 7 + todayDayOfWeek
        columns == (actualTotalDays + 6) \div 7
    IN  GridLoop([row \in 1..7 |-> <<>>], startDate, 0, columns * 7, today)

\* The first today of the model is a Sunday.
HeatFirstDay == DaysFromCivil(2024, 2, 25)
HeatKeys == { KeyOfDay(n) : n \in HeatFirstDay..(HeatFirstDay + MaxHeatDays - 1) }

HeatInit ==
    /\ hmToday \in HeatKeys
    /\ hmWeeks \in 1..MaxWeeks
    /\ hmGrid = <<>>
    /\ HookIdle /\ FormIdle
    /\ StreakIdle /\ SchedIdle /\ RangeIdle /\ TdkIdle /\ AppIdle /\ LibIdle

\* The component renders: the useMemo builds the grid.
BuildGrid ==
    /\ hmGrid = <<>>
    /\ hmGrid' = <<HeatmapGrid(hmToday, hmWeeks)>>
    /\ UNCHANGED <<hmToday, hmWeeks, hookVars, formVars>>
    /\ UNCHANGED <<streakVars, schedVars, rangeVars, tdkVars, appVars, libVars>>

HeatNext == BuildGrid

HeatSpec == HeatInit /\ [][HeatNext]_vars

\* The cells of the last column of a grid, top to bottom.
LastColumn(grid) == [r \in 1..7 |-> grid[r][Len(grid[r])]]

\* Whether a grid holds a cell for a date key.
InGrid(grid, key) == \E r \in 1..7 : \E c \in 1..Len(grid[r]) : grid[r][c] = key

\* C23: the grid has a cell for todayDateKey, and that cell is in the last
\* column.
C23_TodayInLastColumn ==
    hmGrid # <<>> =>
        /\ InGrid(hmGrid[1], hmToday)
        /\ \E r \in 1..7 : LastColumn(hmGrid[1])[r] = hmToday

\* What the grid is: weeks columns when today is a Sunday and weeks + 1
\* otherwise, all rows of that length; a cell for today in the last column
\* from Monday to Friday, in the column before an empty last column on a
\* Saturday, and in no column on a Sunday.
HeatmapGridShape ==
    hmGrid # <<>> =>
        LET grid == hmGrid[1]
            dow == getDayOfWeek(hmToday)
            columns == IF dow = 0 THEN hmWeeks ELSE hmWeeks + 1
        IN  /\ \A r \in 1..7 : Len(grid[r]) = columns
            /\ dow \in 1..5 => LastColumn(grid)[dow + 1] = hmToday
            /\ dow = 6 => /\ \A r \in 1..7 : LastColumn(grid)[r] = NullCell
                          /\ grid[7][columns - 1] = hmToday
            /\ dow = 0 => /\ ~InGrid(grid, hmToday)
                          /\ LastColumn(grid)[7] = subtractDays(hmToday, 1)

-----------------------------------------------------------------------------
(* src/components/HabitForm.tsx as the HabitDetail page mounts it to edit a *)
(* habit: the state it takes from the habit's schedule, the schedule        *)
(* controls, and the submit that calls habits.update                        *)

\* Array.prototype.find on the rules of a schedule: the first rule of a
\* kind, or <<>> (undefined).
FindKind(schedule, kind) ==
    LET Is(rule) == rule.kind = kind
        found == SelectSeq(schedule, Is)
    IN  IF Len(found) = 0 THEN <<>> ELSE <<found[1]>>

\* useState initialisers of the form (initialValues given).
InitialScheduleType(schedule) ==
    IF Len(schedule) = 0 THEN "daily"
    ELSE IF schedule[1].kind = "monthly" THEN "monthly"
    ELSE IF schedule[1].kind = "weekly" THEN "weekly"
    ELSE "daily"
InitialWeekdays(schedule) ==
    IF Len(schedule) = 0 THEN <<1, 2, 3, 4, 5>>
    ELSE LET weekly == FindKind(schedule, "weekly")
         IN  IF weekly # <<>> THEN weekly[1].weekdays ELSE <<1, 2, 3, 4, 5>>
InitialDaysOfMonth(schedule) ==
    IF Len(schedule) = 0 THEN <<1, 15>>
    ELSE LET monthly == FindKind(schedule, "monthly")
         IN  IF monthly # <<>> THEN monthly[1].daysOfMonth ELSE <<1, 15>>

\* The schedule the form's onSubmit builds from its state.
SubmittedSchedule(type, weekdays, daysOfMonth) ==
    IF type = "daily" THEN <<[kind |-> "daily"]>>
    ELSE IF type = "weekly" THEN <<[kind |-> "weekly", weekdays |-> weekdays]>>
    ELSE <<[kind |-> "monthly", daysOfMonth |-> daysOfMonth]>>

\* The order Array.prototype.sort puts two numbers in: by their strings for
\* sort(), by their values for sort((a, b) => a - b).
SortsBefore(a, b, asStrings) ==
    IF asStrings THEN StrLt(NumToStr(a), NumToStr(b)) ELSE a < b

\* Array.prototype.sort: insertion of x into a sorted array, and the sort.
RECURSIVE InsertSorted(_, _, _)
InsertSorted(sorted, x, asStrings) ==
    IF Len(sorted) = 0 THEN <<x>>
    ELSE IF SortsBefore(x, sorted[1], asStrings) THEN <<x>> \o sorted
    ELSE <<sorted[1]>> \o InsertSorted(Tail(sorted), x, asStrings)
RECURSIVE SortArray(_, _)
SortArray(array, asStrings) ==
    IF Len(array) = 0 THEN <<>>
    ELSE InsertSorted(SortArray(SubSeq(array, 1, Len(array) - 1), asStrings),
                      array[Len(array)], asStrings)

\* toggleWeekday and toggleDayOfMonth: the new state for the previous one.
toggleWeekday(prev, day) ==
    LET Other(d) == d # day
    IN  IF Includes(prev, day) THEN SelectSeq(prev, Other)
        ELSE SortArray(Append(prev, day), TRUE)
toggleDayOfMonth(prev, day) ==
    LET Other(d) == d # day
    IN  IF Includes(prev, day) THEN SelectSeq(prev, Other)
        ELSE SortArray(Append(prev, day), FALSE)

\* The schedules of the habit being edited: one rule of each kind, weekdays
\* stored out of order, two rules, and no rule.
FormRules ==
    { [kind |-> "daily"],
      [kind |-> "weekly", weekdays |-> <<1, 3>>],
      [kind |-> "weekly", weekdays |-> <<5, 1>>],
      [kind |-> "monthly", daysOfMonth |-> <<1, 15>>],
      [kind |-> "monthly", daysOfMonth |-> <<31>>],
      [kind |-> "yearly", month |-> 3, day |-> 1] }
FormSchedules ==
    {<<>>} \cup { <<r>> : r \in FormRules }
    \cup { <<[kind |-> "weekly", weekdays |-> <<1, 3>>],
             [kind |-> "monthly", daysOfMonth |-> <<31>>]>>,
           <<[kind |-> "monthly", daysOfMonth |-> <<31>>],
             [kind |-> "yearly", month |-> 3, day |-> 1]>> }

\* The person who edits, and their habit.
FormUser == "clerk|alice"
FormHabitId == 2
FormNextId == 3

FormInit ==
    /\ users = { [_id |-> 1, name |-> "Alice", tokenIdentifier |-> FormUser,
                  timeZone |-> ServerTimeZone, graceMinutes |-> 180] }
    /\ \E schedule \in FormSchedules :
          habits = { [_id |-> FormHabitId, userId |-> 1, title |-> "Run", notes |-> <<>>,
                      color |-> "#10b981", schedule |-> schedule, archivedAt |-> <<>>] }
    /\ habitCompletions = {}
    /\ nextId = FormNextId
    /\ lastReturn = [call |-> None]
    /\ FormIdle
    /\ PageIdle /\ HeatIdle /\ HookIdle
    /\ StreakIdle /\ SchedIdle /\ RangeIdle /\ TdkIdle /\ LibIdle

\* Edit is pressed: HabitDetail renders HabitForm with the habit's values.
OpenEditForm ==
    /\ formHabit = <<>>
    /\ LET habit == get(FormUser, FormHabitId).value[1]
       IN  /\ formHabit' = <<habit._id>>
           /\ scheduleType' = InitialScheduleType(habit.schedule)
           /\ selectedWeekdays' = InitialWeekdays(habit.schedule)
           /\ selectedDaysOfMonth' = InitialDaysOfMonth(habit.schedule)
    /\ formTouched' = FALSE
    /\ updateArgs' = <<>>
    /\ UNCHANGED <<dbVars, pageVars, heatVars, hookVars>>
    /\ UNCHANGED <<streakVars, schedVars, rangeVars, tdkVars, libVars>>

\* One of the three schedule type buttons is pressed.
SetScheduleType ==
    /\ formHabit # <<>>
    /\ \E type \in {"daily", "weekly", "monthly"} : scheduleType' = type
    /\ formTouched' = TRUE
    /\ UNCHANGED <<formHabit, selectedWeekdays, selectedDaysOfMonth, updateArgs>>
    /\ UNCHANGED <<dbVars, pageVars, heatVars, hookVars>>
    /\ UNCHANGED <<streakVars, schedVars, rangeVars, tdkVars, libVars>>

\* A weekday button is pressed (shown when the type is weekly).
ToggleWeekday ==
    /\ formHabit # <<>>
    /\ scheduleType = "weekly"
    /\ \E day \in {0, 3} : selectedWeekdays' = toggleWeekday(selectedWeekdays, day)
    /\ formTouched' = TRUE
    /\ UNCHANGED <<formHabit, scheduleType, selectedDaysOfMonth, updateArgs>>
    /\ UNCHANGED <<dbVars, pageVars, heatVars, hookVars>>
    /\ UNCHANGED <<streakVars, schedVars, rangeVars, tdkVars, libVars>>

\* A day-of-month button is pressed (shown when the type is monthly).
ToggleDayOfMonth ==
    /\ formHabit # <<>>
    /\ scheduleType = "monthly"
    /\ \E day \in {1, 10} : selectedDaysOfMonth' = toggleDayOfMonth(selectedDaysOfMonth, day)
    /\ formTouched' = TRUE
    /\ UNCHANGED <<formHabit, scheduleType, selectedWeekdays, updateArgs>>
    /\ UNCHANGED <<dbVars, pageVars, heatVars, hookVars>>
    /\ UNCHANGED <<streakVars, schedVars, rangeVars, tdkVars, libVars>>

\* Save Changes is pressed: onSubmit builds the schedule, handleUpdate calls
\* habits.update with the form's values, and the form closes.  The title and
\* colour fields hold the habit's values; empty notes are sent as undefined.
SubmitForm ==
    /\ formHabit # <<>>
    /\ LET habit == GetHabit(formHabit[1]).doc
           args == [habitId |-> formHabit[1],
                    title |-> <<habit.title>>,
                    notes |-> habit.notes,
                    color |-> <<habit.color>>,
                    schedule |-> <<SubmittedSchedule(scheduleType, selectedWeekdays,
                                                     selectedDaysOfMonth)>>]
       IN  /\ updateArgs' = <<args>>
           /\ Update(FormUser, args.habitId, args.title, args.notes, args.color,
                     args.schedule)
    /\ formHabit' = <<>>
    /\ UNCHANGED <<scheduleType, selectedWeekdays, selectedDaysOfMonth, formTouched>>
    /\ UNCHANGED <<users, habitCompletions, nextId, pageVars, heatVars, hookVars>>
    /\ UNCHANGED <<streakVars, schedVars, rangeVars, tdkVars, libVars>>

FormNext ==
    \/ OpenEditForm
    \/ SetScheduleType
    \/ ToggleWeekday
    \/ ToggleDayOfMonth
    \/ SubmitForm

FormSpec == FormInit /\ [][FormNext]_vars

\* The stored schedule of the habit being edited.
StoredSchedule == (CHOOSE h \in habits : h._id = FormHabitId).schedule

\* C28: a submit of the edit form whose schedule controls were not used
\* since it opened calls habits.update with the schedule the habit had.
C28_UntouchedSubmitKeepsSchedule ==
    [][(SubmitForm /\ ~formTouched)
       => updateArgs'[1].schedule = <<StoredSchedule>>]_vars

\* The same for the schedules the form can itself produce: one daily, weekly
\* or monthly rule.
UntouchedSubmitKeepsOneRuleSchedule ==
    [][(/\ SubmitForm /\ ~formTouched
        /\ Len(StoredSchedule) = 1
        /\ StoredSchedule[1].kind \in {"daily", "weekly", "monthly"})
       => /\ updateArgs'[1].schedule = <<StoredSchedule>>
          /\ habits' = habits]_vars

-----------------------------------------------------------------------------
(* src/hooks/useStoreUser.ts in a browser where people sign in and out: the *)
(* effect that calls users.store, the server running the calls, and the     *)
(* calls' promises settling whenever their answers arrive                   *)

MaxSignIns == 3

\* What useConvexAuth returns.
AuthIsLoading == convexAuth = "loading"
AuthIsAuthenticated == convexAuth = "authenticated"

\* returnValue of the hook.
HookIsLoading == AuthIsLoading \/ (AuthIsAuthenticated /\ userId = <<>>)
HookIsAuthenticated == AuthIsAuthenticated /\ userId # <<>>

HookInit ==
    /\ clerkUser = None
    /\ convexAuth = "unauthenticated"
    /\ userId = <<>>
    /\ storeCalls = {}
    /\ signIns = 0
    /\ DbInit /\ PageIdle
    /\ HeatIdle /\ FormIdle
    /\ StreakIdle /\ SchedIdle /\ RangeIdle /\ TdkIdle /\ LibIdle

\* Someone signs in with Clerk: user?.id changes while Convex is not yet
\* authenticated, so the effect runs its first branch, setUserId(null).
SignIn ==
    /\ clerkUser = None
    /\ signIns < MaxSignIns
    /\ \E who \in Identities : clerkUser' = who
    /\ convexAuth' = "loading"
    /\ userId' = <<>>
    /\ signIns' = signIns + 1
    /\ UNCHANGED <<storeCalls, dbVars, pageVars, heatVars, formVars>>
    /\ UNCHANGED <<streakVars, schedVars, rangeVars, tdkVars, libVars>>

\* Convex has accepted the session's token: isAuthenticated becomes true and
\* the effect runs createUser, which calls storeUser() and awaits it.
AuthConfirmed ==
    /\ convexAuth = "loading"
    /\ convexAuth' = "authenticated"
    /\ storeCalls' = storeCalls \cup {[call |-> signIns, who |-> clerkUser, answer |-> <<>>]}
    /\ UNCHANGED <<clerkUser, userId, signIns, dbVars, pageVars, heatVars, formVars>>
    /\ UNCHANGED <<streakVars, schedVars, rangeVars, tdkVars, libVars>>

\* The person signs out: isAuthenticated becomes false and the effect runs
\* its first branch.  Calls in flight stay in flight.
SignOut ==
    /\ clerkUser # None
    /\ clerkUser' = None
    /\ convexAuth' = "unauthenticated"
    /\ userId' = <<>>
    /\ UNCHANGED <<storeCalls, signIns, dbVars, pageVars, heatVars, formVars>>
    /\ UNCHANGED <<streakVars, schedVars, rangeVars, tdkVars, libVars>>

\* The identity ctx.auth.getUserIdentity() gives the server for the browser's
\* connection: the signed-in person's once Convex has accepted the session's
\* token, none otherwise.
ConnectionIdentity == IF AuthIsAuthenticated THEN clerkUser ELSE None

\* The server runs a store call with the identity of the connection, or with
\* none when the session's token is not accepted at that moment; the
\* handler's answer travels back.
ServerStore ==
    /\ \E c \in storeCalls :
          /\ c.answer = <<>>
          /\ \E seen \in {ConnectionIdentity, None} : \E name \in NamesOf(seen) :
                /\ Store(seen, name)
                /\ storeCalls' = (storeCalls \ {c}) \cup {[c EXCEPT !.answer = <<lastReturn'>>]}
    /\ UNCHANGED <<habits, habitCompletions>>
    /\ UNCHANGED <<clerkUser, convexAuth, userId, signIns, pageVars, heatVars, formVars>>
    /\ UNCHANGED <<streakVars, schedVars, rangeVars, tdkVars, libVars>>

\* The answer of a call arrives and the awaited promise settles: setUserId
\* with the returned id, or the catch block, which does nothing.
StoreSettles ==
    /\ \E c \in storeCalls :
          /\ c.answer # <<>>
          /\ userId' = IF c.answer[1].threw THEN userId ELSE <<c.answer[1].value>>
          /\ storeCalls' = storeCalls \ {c}
    /\ UNCHANGED <<clerkUser, convexAuth, signIns, dbVars, pageVars, heatVars, formVars>>
    /\ UNCHANGED <<streakVars, schedVars, rangeVars, tdkVars, libVars>>

HookNext ==
    \/ SignIn
    \/ AuthConfirmed
    \/ SignOut
    \/ ServerStore
    \/ StoreSettles

HookSpec == HookInit /\ [][HookNext]_vars

\* The server runs every call it has received, and every answer arrives;
\* nothing makes a person sign in or out.
HookLiveSpec == HookSpec /\ WF_vars(ServerStore) /\ WF_vars(StoreSettles)

\* C25: once Convex auth is authenticated, the hook comes to return
\* isLoading = false and isAuthenticated = true, unless the authentication
\* ends first.
C25_AuthenticatedLeadsToStored ==
    AuthIsAuthenticated ~> ((HookIsAuthenticated /\ ~HookIsLoading) \/ ~AuthIsAuthenticated)

\* C27: when the hook returns isAuthenticated = true, its userId is the _id
\* of the users row of the identity that is signed in, which is what a store
\* call for that identity returns.
C27_UserIdIsOfSignedInIdentity ==
    HookIsAuthenticated =>
        \E u \in users : u.tokenIdentifier = clerkUser /\ userId = <<u._id>>

\* What holds instead: the userId the hook returns is the _id of a users
\* row, and it is the signed-in person's when no answer to a call of an
\* earlier sign-in has arrived during this one.
UserIdIsOfSignedInIdentityAtFirstSignIn ==
    HookIsAuthenticated =>
        /\ \E u \in users : userId = <<u._id>>
        /\ signIns = 1 => \E u \in users : u.tokenIdentifier = clerkUser /\ userId = <<u._id>>

====
